---- MODULE Spec2Model ----
(***************************************************************************)
(* A model of the arbitrary-precision integer of BigInteger/biginteger.h.  *)
(* A BigInteger is the record [a |-> digit groups, sign |-> plus | minus]; *)
(* the vector a is little-endian and 0-indexed in the source, so the       *)
(* source's a[i] is a[i + 1] here.  A std::string is a sequence of         *)
(* one-character strings, the source's s[j] being s[j + 1].                *)
(***************************************************************************)
EXTENDS Integers, Sequences, FiniteSets

\* ------------------------------------------------------------ constants
base == 100
base_len == 2
plus == 1
minus == -1
IntMax == 2147483647
IntMin == -IntMax - 1

\* --------------------------------------------------------------- bounds
\* operands of the arithmetic scenarios have at most MaxGroups groups
MaxGroups == 2
\* input strings have at most MaxStrLen decimal digits after the sign
MaxStrLen == 3

\* ------------------------------------------------------- C++ arithmetic
\* int division and remainder truncate toward zero
\* (for a positive divisor y, the only kind the source divides by)
CDiv(x, y) ==
    IF x >= 0 \/ x % y = 0 THEN x \div y ELSE (x \div y) + 1
CMod(x, y) == x - y * CDiv(x, y)
Max(x, y) == IF x >= y THEN x ELSE y

\* ------------------------------------------------------------ characters
DigitChars == <<"0", "1", "2", "3", "4", "5", "6", "7", "8", "9">>
\* the character's code, for the characters the inputs are built from
CharCode(c) ==
    CASE c = "0" -> 48 [] c = "1" -> 49 [] c = "2" -> 50 [] c = "3" -> 51
      [] c = "4" -> 52 [] c = "5" -> 53 [] c = "6" -> 54 [] c = "7" -> 55
      [] c = "8" -> 56 [] c = "9" -> 57 [] c = "-" -> 45 [] c = "+" -> 43
      [] c = "a" -> 97 [] c = " " -> 32 [] c = "NUL" -> 0
\* s[j] of a std::string: s[size()] is the terminating '\0'
CharAt(s, j) == IF j < Len(s) THEN s[j + 1] ELSE "NUL"

\* a call whose arguments are complete before its body runs, as C++ passes
\* them: f of the value of v, and f of the values of v and w
ByValue(f(_), v) == CHOOSE r \in {f(c) : c \in {v}} : TRUE
ByValue2(f(_, _), v, w) ==
    CHOOSE r \in {f(c, d) : c \in {v}, d \in {w}} : TRUE

\* ------------------------------------------------------------------ Sign
SignMul(x, y) == IF x = y THEN plus ELSE minus

BigInt(v, sg) == [a |-> v, sign |-> sg]

\* std::to_string(int)
RECURSIVE NatToString(_)
NatToString(x) ==
    IF x < 10 THEN <<DigitChars[x + 1]>>
    ELSE Append(NatToString(x \div 10), DigitChars[(x % 10) + 1])
to_string(x) == IF x < 0 THEN <<"-">> \o NatToString(-x) ELSE NatToString(x)

Zeros(k) == [i \in 1..k |-> "0"]

\* number_to_string: the padding count base_len - result.size() is a size_t,
\* so a result longer than base_len asks for a string of about 2^64 characters
\* and std::string throws std::length_error
number_to_string_throws(x) == Len(to_string(x)) > base_len
\* mutant: the group is not padded to base_len characters
number_to_string_nopad(x) == to_string(x)
number_to_string(x) ==
    LET result == to_string(x)
    IN  Zeros(base_len - Len(result)) \o result

reverse(s) == [i \in 1..Len(s) |-> s[Len(s) + 1 - i]]

RECURSIVE pop_zero_chars(_)
pop_zero_chars(s) ==
    IF Len(s) > 1 /\ s[Len(s)] = "0"
    THEN pop_zero_chars(SubSeq(s, 1, Len(s) - 1))
    ELSE s
delete_trailing_zeroes_str(s) == reverse(pop_zero_chars(reverse(s)))

RECURSIVE delete_trailing_zeroes(_)
delete_trailing_zeroes(x) ==
    IF Len(x) > 1 /\ x[Len(x)] = 0
    THEN delete_trailing_zeroes(SubSeq(x, 1, Len(x) - 1))
    ELSE x

sgn(x) == (IF 0 <= x THEN 1 ELSE 0) - (IF x < 0 THEN 1 ELSE 0)

is_zero(x) == Len(x.a) = 1 /\ x.a[1] = 0
is_one(x) == Len(x.a) = 1 /\ x.a[1] = 1
size(x) == Len(x.a)

\* the statement if (is_zero()) sign = Sign::plus; that ends the operators
zero_is_plus(x) == IF is_zero(x) THEN [x EXCEPT !.sign = plus] ELSE x
\* delete_trailing_zeroes(a) on the vector of the object
trimmed(x) == [x EXCEPT !.a = delete_trailing_zeroes(x.a)]

RECURSIVE less_abs_from(_, _, _)
less_abs_from(lhs, rhs, i) ==
    IF i < 0 THEN FALSE
    ELSE IF lhs.a[i + 1] # rhs.a[i + 1] THEN lhs.a[i + 1] < rhs.a[i + 1]
    ELSE less_abs_from(lhs, rhs, i - 1)
less_abs(lhs, rhs) ==
    IF size(lhs) # size(rhs) THEN size(lhs) < size(rhs)
    ELSE less_abs_from(lhs, rhs, size(lhs) - 1)

\* mutant: a negative group is lifted by base, the borrow is not carried on
RECURSIVE borrow_loop_noborrow(_, _, _)
borrow_loop_noborrow(v, i, subtract) ==
    IF i > Len(v) THEN v
    ELSE IF v[i] < 0
         THEN borrow_loop_noborrow([v EXCEPT ![i] = v[i] + base], i + 1, 0)
         ELSE borrow_loop_noborrow(v, i + 1, 0)

\* the borrow loop of abs_subtract_small_from_big, from position i on
RECURSIVE borrow_loop(_, _, _)
borrow_loop(v, i, subtract) ==
    IF i > Len(v) THEN v
    ELSE LET d == v[i] - subtract
         IN  IF d < 0
             THEN borrow_loop([v EXCEPT ![i] = d + base], i + 1, 1)
             ELSE borrow_loop([v EXCEPT ![i] = d], i + 1, 0)

\* this->abs_subtract_small_from_big(small, fl): the new vector a
abs_subtract_small_from_big(this, small, fl) ==
    LET len_small0 == size(small)
        len_big0 == size(this)
        len_big == IF fl THEN len_small0 ELSE len_big0
        \* a.resize(len_big, 0)
        resized == [i \in 1..len_big |->
                       IF i <= Len(this.a) THEN this.a[i] ELSE 0]
        sign_fl == IF fl THEN -1 ELSE 1
        \* the first loop indexes a[i] for every i < small.size()
        diff == [i \in 1..len_big |->
                    IF i <= size(small)
                    THEN (resized[i] - small.a[i]) * sign_fl
                    ELSE resized[i]]
    IN  delete_trailing_zeroes(borrow_loop(diff, 1, 0))

\* mutant: the remainder of a group is not carried into the group below
RECURSIVE div10_loop_nocarry(_, _, _)
div10_loop_nocarry(v, i, add) ==
    IF i < 1 THEN v
    ELSE div10_loop_nocarry([v EXCEPT ![i] = CDiv(v[i], 10)], i - 1, 0)

\* div10(x): the new vector
RECURSIVE div10_loop(_, _, _)
div10_loop(v, i, add) ==
    IF i < 1 THEN v
    ELSE LET cur == v[i] + add * base
         IN  div10_loop([v EXCEPT ![i] = CDiv(cur, 10)], i - 1, CMod(cur, 10))
div10(x) == [x EXCEPT !.a = delete_trailing_zeroes(div10_loop(x.a, Len(x.a), 0))]

\* BigInteger()
BigInteger == BigInt(<<0>>, plus)

\* BigInteger(const std::string&): the windows of base_len characters, from
\* the end of the string
RECURSIVE window_number(_, _, _, _)
window_number(s, j, i, number) ==
    IF j > i THEN number
    ELSE window_number(s, j + 1, i,
                       number * 10 + (CharCode(CharAt(s, j)) - CharCode("0")))
RECURSIVE string_groups(_, _, _, _)
string_groups(s, cur, i, acc) ==
    IF i < cur THEN acc
    ELSE string_groups(s, cur, i - base_len,
             Append(acc, window_number(s, Max(cur, i - base_len + 1), i, 0)))
BigIntegerFromString(s) ==
    LET neg == CharAt(s, 0) = "-"
        cur == IF neg THEN 1 ELSE 0
    IN  BigInt(delete_trailing_zeroes(string_groups(s, cur, Len(s) - 1, <<>>)),
               IF neg THEN minus ELSE plus)

\* in >> s of operator>>: the whitespace before the word is skipped, the word
\* ends at the next whitespace or at the end of the stream
RECURSIVE skip_ws(_)
skip_ws(in) == IF Len(in) > 0 /\ in[1] = " " THEN skip_ws(Tail(in)) ELSE in
RECURSIVE take_word(_)
take_word(in) ==
    IF Len(in) = 0 \/ in[1] = " " THEN <<>>
    ELSE <<in[1]>> \o take_word(Tail(in))
extract_string(in) == take_word(skip_ws(in))
\* the stream's failbit after in >> s: set when no character was extracted
extract_fails(in) == extract_string(in) = <<>>

\* abs(int): abs(INT_MIN) overflows, which is undefined; a two's-complement
\* build negates with wrap-around and returns INT_MIN again (a trapping build
\* produces no value at all)
abs_outcomes(x) == IF x = IntMin THEN {IntMin} ELSE {IF x < 0 THEN -x ELSE x}

\* BigInteger(int): the do-while loop on the value left in x
RECURSIVE int_groups(_, _)
int_groups(x, acc) ==
    LET pushed == Append(acc, CMod(x, base))
        next == CDiv(x, base)
    IN  IF next > 0 THEN int_groups(next, pushed) ELSE pushed
BigIntegerFromIntAbs(x, absx) == BigInt(int_groups(absx, <<>>), sgn(x))
\* the values BigInteger(x) can have
BigIntegerFromInt(x) == {BigIntegerFromIntAbs(x, v) : v \in abs_outcomes(x)}
\* BigInteger(x) for an int with a defined abs (the literal 1 of ++ and --)
BigIntegerOf(x) == BigIntegerFromIntAbs(x, IF x < 0 THEN -x ELSE x)

\* toString(): the groups, most significant first
RECURSIVE groups_string(_, _)
groups_string(v, i) ==
    IF i < 1 THEN <<>>
    ELSE number_to_string(v[i]) \o groups_string(v, i - 1)
\* toString() of an object with an empty vector reads a[size_t(-1)]: the read
\* is out of range, the build is killed by the access or goes on with what
\* it read
toString_undefined(x) == size(x) = 0
toString_throws(x) == \E i \in 1..Len(x.a) : number_to_string_throws(x.a[i])
toString(x) ==
    (IF x.sign = minus THEN <<"-">> ELSE <<>>)
        \o delete_trailing_zeroes_str(groups_string(x.a, Len(x.a)))

\* operator*=: FFT, pointwise product and inverse FFT of the two vectors
\* padded to n compute their cyclic convolution of length n; the rounding
\* static_cast<int>(re + 0.5) recovers it exactly while the coefficients are
\* non-negative and stay far below 2^52, as they do for every canonical
\* operand of this model; the cast truncates toward zero, so a negative
\* coefficient v (a vector holding a negative group) comes out as v + 1
round_half(v) == IF v < 0 THEN v + 1 ELSE v
\* mutant: the padded length is not doubled, the convolution wraps around
fft_size_nodouble(la, lb) ==
    LET RECURSIVE grow(_)
        grow(n) == IF n < Max(la, lb) THEN grow(2 * n) ELSE n
    IN  grow(1)
fft_size(la, lb) ==
    LET RECURSIVE grow(_)
        grow(n) == IF n < Max(la, lb) THEN grow(2 * n) ELSE n
    IN  2 * grow(1)
padded(v, n) == [i \in 1..n |-> IF i <= Len(v) THEN v[i] ELSE 0]
RECURSIVE conv_sum(_, _, _, _, _)
conv_sum(fa, fb, n, k, i) ==
    IF i >= n THEN 0
    ELSE fa[i + 1] * fb[((k - i) % n) + 1] + conv_sum(fa, fb, n, k, i + 1)
convolution(av, bv, n) ==
    LET fa == padded(av, n)
        fb == padded(bv, n)
    IN  [k \in 1..n |-> round_half(conv_sum(fa, fb, n, k - 1, 0))]
RECURSIVE carry_loop(_, _, _)
carry_loop(res, i, add) ==
    IF i > Len(res) THEN res
    ELSE LET d == res[i] + add
         IN  carry_loop([res EXCEPT ![i] = CMod(d, base)], i + 1, CDiv(d, base))
MulAssign(this, x) ==
    zero_is_plus(
        BigInt(delete_trailing_zeroes(
                   carry_loop(convolution(this.a, x.a,
                                          fft_size(size(this), size(x))),
                              1, 0)),
               SignMul(this.sign, x.sign)))

\* mutant: the last carry is not pushed
RECURSIVE add_loop_nopush(_, _, _, _)
add_loop_nopush(v, xv, i, add) ==
    IF i > Len(v) THEN v
    ELSE LET d == v[i] + (IF i <= Len(xv) THEN xv[i] ELSE 0) + add
         IN  add_loop_nopush([v EXCEPT ![i] = CMod(d, base)], xv, i + 1,
                             CDiv(d, base))

\* operator+=, the branch of equal signs: the carry loop, then push_back(add)
RECURSIVE add_loop(_, _, _, _)
add_loop(v, xv, i, add) ==
    IF i > Len(v) THEN Append(v, add)
    ELSE LET d == v[i] + (IF i <= Len(xv) THEN xv[i] ELSE 0) + add
         IN  add_loop([v EXCEPT ![i] = CMod(d, base)], xv, i + 1, CDiv(d, base))
PlusAssign(this, x) ==
    LET lhs_sign == this.sign
        rhs_sign == x.sign
    IN  IF lhs_sign = rhs_sign
        THEN LET len == Max(size(this), size(x))
             IN  BigInt(delete_trailing_zeroes(
                            add_loop(padded(this.a, len), x.a, 1, 0)),
                        lhs_sign)
        ELSE trimmed(zero_is_plus(
                 BigInt(abs_subtract_small_from_big(this, x, less_abs(this, x)),
                        IF less_abs(this, x) THEN rhs_sign ELSE lhs_sign)))

\* operator-=
MinusAssign(this, x) ==
    PlusAssign(this, [x EXCEPT !.sign = SignMul(x.sign, minus)])

\* mutant: the trial subtractions are capped at 8
RECURSIVE trial_subtract_cap8(_, _, _)
trial_subtract_cap8(this, sub, number) ==
    IF number < 8 /\ ~less_abs(this, sub)
    THEN trial_subtract_cap8(MinusAssign(this, sub), sub, number + 1)
    ELSE [rem |-> this, number |-> number]

\* operator/=: one decimal position, the trial subtractions capped at 9
RECURSIVE trial_subtract(_, _, _)
trial_subtract(this, sub, number) ==
    IF number < 9 /\ ~less_abs(this, sub)
    THEN trial_subtract(MinusAssign(this, sub), sub, number + 1)
    ELSE [rem |-> this, number |-> number]
\* the loop over the decimal positions; t is what the trial subtractions of
\* the position left
RECURSIVE division_loop(_, _, _, _)
RECURSIVE division_next(_, _, _, _)
division_next(t, sub, degree, result) ==
    division_loop(t.rem, div10(sub), degree - 1,
                  Append(result, DigitChars[t.number + 1]))
division_loop(this, sub, degree, result) ==
    IF degree < 0 THEN [rem |-> this, result |-> result]
    ELSE ByValue(LAMBDA t : division_next(t, sub, degree, result),
                 trial_subtract(this, sub, 0))
DivAssign(this, x) ==
    IF size(x) > size(this) THEN BigInt(<<0>>, plus)
    ELSE LET degree == (size(this) - size(x) + 1) * base_len
             result0 == IF SignMul(this.sign, x.sign) = minus
                        THEN <<"-">> ELSE <<>>
         IN  ByValue(LAMBDA quot : zero_is_plus(trimmed(quot)),
                 ByValue(LAMBDA str : BigIntegerFromString(str),
                     ByValue(LAMBDA sub :
                                 division_loop([this EXCEPT !.sign = plus],
                                               sub, degree, result0).result,
                             BigIntegerFromString(
                                 toString([x EXCEPT !.sign = plus])
                                     \o Zeros(degree)))))

\* operator%=
ModAssign(this, x) ==
    ByValue(LAMBDA quot :
                ByValue(LAMBDA prod : zero_is_plus(MinusAssign(this, prod)),
                        MulAssign(quot, x)),
            DivAssign(this, x))

\* operator++ and operator-- (prefix: the new value; postfix returns the copy)
PreInc(this) == PlusAssign(this, BigIntegerOf(1))
PreDec(this) == MinusAssign(this, BigIntegerOf(1))

\* mutant: the sign of zero is flipped too
Negate_unguarded(this) == [this EXCEPT !.sign = SignMul(this.sign, minus)]

\* unary operator-
Negate(this) ==
    IF ~is_zero(this) THEN [this EXCEPT !.sign = SignMul(this.sign, minus)]
    ELSE this

\* operator==
Equal(lhs, rhs) ==
    /\ lhs.sign = rhs.sign
    /\ size(lhs) = size(rhs)
    /\ \A i \in 1..size(lhs) : lhs.a[i] = rhs.a[i]

\* the order of the enumerators of Sign: minus (-1) < plus (1)
SignLess(x, y) == x < y

\* mutant: the comparison of the magnitudes is not inverted for negatives
Less_noxor(lhs, rhs) ==
    IF lhs.sign # rhs.sign THEN SignLess(lhs.sign, rhs.sign)
    ELSE less_abs(lhs, rhs)

\* operator<: (sign == minus) ^ c is c inverted for a negative lhs
RECURSIVE less_from(_, _, _)
less_from(lhs, rhs, i) ==
    IF i < 0 THEN FALSE
    ELSE IF lhs.a[i + 1] # rhs.a[i + 1]
         THEN (lhs.sign = minus) # (lhs.a[i + 1] < rhs.a[i + 1])
         ELSE less_from(lhs, rhs, i - 1)
Less(lhs, rhs) ==
    IF lhs.sign # rhs.sign THEN SignLess(lhs.sign, rhs.sign)
    ELSE IF size(lhs) # size(rhs)
         THEN (lhs.sign = minus) # (size(lhs) < size(rhs))
         ELSE less_from(lhs, rhs, size(lhs) - 1)

\* the comparison operator named o: operator!= is !(lhs == rhs), operator>
\* is rhs < lhs, operator<= is !(rhs < lhs), operator>= is !(lhs < rhs)
Compare(o, lhs, rhs) ==
    CASE o = "==" -> Equal(lhs, rhs)
      [] o = "!=" -> ~Equal(lhs, rhs)
      [] o = "<" -> Less(lhs, rhs)
      [] o = ">" -> Less(rhs, lhs)
      [] o = "<=" -> ~Less(rhs, lhs)
      [] o = ">=" -> ~Less(lhs, rhs)
\* the compound assignment this o= x named by its operator o
CompoundValue(o, this, x) ==
    CASE o = "+" -> PlusAssign(this, x)
      [] o = "-" -> MinusAssign(this, x)
      [] o = "*" -> MulAssign(this, x)
      [] o = "/" -> DivAssign(this, x)
      [] o = "%" -> ModAssign(this, x)

\* -------------------------------------------------------------- Rational
\* operator/= leaves by std::length_error when the divisor holds a group that
\* number_to_string cannot pad (x_abs.toString()), before it has written
\* anything; operator%= divides a copy first
DivAssign_throws(this, x) ==
    size(x) <= size(this) /\ toString_throws([x EXCEPT !.sign = plus])
ModAssign_throws(this, x) == DivAssign_throws(this, x)

\* gcd(BigInteger a, BigInteger b): while (b) { a %= b; swap(a, b) }, as it
\* runs: it returns a when b reaches zero, or leaves by the exception of a %= b
RECURSIVE gcd_run(_, _)
gcd_run(a, b) ==
    IF is_zero(b) THEN [how |-> "none", g |-> a]
    ELSE IF ModAssign_throws(a, b) THEN [how |-> "length_error", g |-> a]
    ELSE ByValue(LAMBDA rest : gcd_run(b, rest), ModAssign(a, b))

Rat(num, den, sg) == [numerator |-> num, denominator |-> den, sign |-> sg]

\* Rational::is_zero
RatIsZero(r) == is_zero(r.numerator)

\* mutant: the sign of the numerator is dropped, not folded into the sign
fold_sign_drop(r) ==
    Rat([r.numerator EXCEPT !.sign = plus], r.denominator,
        IF is_zero(r.numerator) THEN plus ELSE r.sign)

\* Rational::normalize, its first three statements: the sign of the numerator
\* moves into the sign of the Rational, a zero is positive
fold_sign(r) ==
    Rat([r.numerator EXCEPT !.sign = plus], r.denominator,
        IF is_zero(r.numerator) THEN plus
        ELSE SignMul(r.sign, r.numerator.sign))

\* Rational::normalize, its last statement: denominator /= g
normalize_denominator(f, g) ==
    IF DivAssign_throws(f.denominator, g)
    THEN [obj |-> f, how |-> "length_error"]
    ELSE [obj |-> [f EXCEPT !.denominator = DivAssign(f.denominator, g)],
          how |-> "none"]
\* Rational::normalize from if (g.is_one()) return; on, o being what gcd did
normalize_divide(f, o) ==
    IF o.how # "none" THEN [obj |-> f, how |-> o.how]
    ELSE IF is_one(o.g) THEN [obj |-> f, how |-> "none"]
    ELSE IF DivAssign_throws(f.numerator, o.g)
    THEN [obj |-> f, how |-> "length_error"]
    ELSE normalize_denominator(
             [f EXCEPT !.numerator = DivAssign(f.numerator, o.g)], o.g)
\* Rational::normalize as it runs: obj is the object it leaves behind, how is
\* "none" when it returns and the exception when one of its divisions, or one
\* inside gcd, leaves by std::length_error
normalize_reduce(f) ==
    ByValue(LAMBDA o : normalize_divide(f, o),
            gcd_run(f.numerator, f.denominator))
normalize_run(r) == ByValue(LAMBDA f : normalize_reduce(f), fold_sign(r))
normalize(r) == normalize_run(r).obj

\* Rational(const BigInteger&), Rational(int) and Rational()
RationalFromBig(x) == Rat([x EXCEPT !.sign = plus], BigIntegerOf(1), x.sign)
RationalFromInt(x) == RationalFromBig(BigIntegerOf(x))
RationalFromIntOutcomes(x) == {RationalFromBig(b) : b \in BigIntegerFromInt(x)}
Rational == Rat(BigIntegerOf(0), BigIntegerOf(1), plus)

\* The compound assignments take x by reference.  With alias the argument is
\* the object itself, and a read of x then sees what the statements before it
\* have written; without it x is a distinct object.
Arg(this, x, alias) == IF alias THEN this ELSE x

\* Rational::operator*= up to its call of normalize, statement by statement
RatMul_sign(this, x, alias) ==
    [this EXCEPT !.sign = SignMul(this.sign, Arg(this, x, alias).sign)]
RatMul_denominator(this, x, alias) ==
    RatMul_sign(
        [this EXCEPT !.denominator =
             MulAssign(this.denominator, Arg(this, x, alias).denominator)],
        x, alias)
RatMulBody(this, x, alias) ==
    RatMul_denominator(
        [this EXCEPT !.numerator =
             MulAssign(this.numerator, Arg(this, x, alias).numerator)],
        x, alias)

\* Rational::operator+= (negate = FALSE) and operator-= (negate = TRUE) up to
\* their call of normalize, statement by statement; the two differ in the
\* branch taken on x.sign
RatAddSub_denominator(this, x, alias) ==
    [this EXCEPT !.denominator =
         MulAssign(this.denominator, Arg(this, x, alias).denominator)]
RatAddSub_term(this, x) == MulAssign(x.numerator, this.denominator)
RatAddSub_combine(this, x, alias, negate) ==
    RatAddSub_denominator(
        [this EXCEPT !.numerator =
             IF (Arg(this, x, alias).sign = plus) # negate
             THEN PlusAssign(this.numerator,
                             RatAddSub_term(this, Arg(this, x, alias)))
             ELSE MinusAssign(this.numerator,
                              RatAddSub_term(this, Arg(this, x, alias)))],
        x, alias)
RatAddSub_scale(this, x, alias, negate) ==
    RatAddSub_combine(
        [this EXCEPT !.numerator =
             MulAssign(this.numerator, Arg(this, x, alias).denominator)],
        x, alias, negate)
RatAddSubBody(this, x, alias, negate) ==
    RatAddSub_scale(
        [this EXCEPT !.numerator.sign = this.sign, !.sign = plus],
        x, alias, negate)
RatPlusBody(this, x, alias) == RatAddSubBody(this, x, alias, FALSE)
RatMinusBody(this, x, alias) == RatAddSubBody(this, x, alias, TRUE)

\* Rational::operator/= up to its call of normalize, statement by statement
RatDiv_denominator(this, x, alias) ==
    RatMul_sign(
        [this EXCEPT !.denominator =
             MulAssign(this.denominator, Arg(this, x, alias).numerator)],
        x, alias)
RatDivBody(this, x, alias) ==
    RatDiv_denominator(
        [this EXCEPT !.numerator =
             MulAssign(this.numerator, Arg(this, x, alias).denominator)],
        x, alias)

\* the compound assignments with a distinct right operand
RatMulAssign(this, x) ==
    ByValue(LAMBDA body : normalize(body), RatMulBody(this, x, FALSE))
RatPlusAssign(this, x) ==
    ByValue(LAMBDA body : normalize(body), RatPlusBody(this, x, FALSE))
RatMinusAssign(this, x) ==
    ByValue(LAMBDA body : normalize(body), RatMinusBody(this, x, FALSE))
RatDivAssign(this, x) ==
    ByValue(LAMBDA body : normalize(body), RatDivBody(this, x, FALSE))

\* Rational(const Rational&) copies the three members
RationalCopy(x) == Rat(x.numerator, x.denominator, x.sign)

\* the binary operators: copy = lhs; copy op= rhs; return copy
RatTimes(l, r) == RatMulAssign(RationalCopy(l), r)
RatPlus(l, r) == RatPlusAssign(RationalCopy(l), r)
RatMinus(l, r) == RatMinusAssign(RationalCopy(l), r)
RatOver(l, r) == RatDivAssign(RationalCopy(l), r)

\* Rational::operator-() const up to its call of normalize
RatNegateBody(this) == [this EXCEPT !.sign = SignMul(this.sign, minus)]

\* mutant: the denominator is always printed
RatToString_alwaysden(r) ==
    (IF r.sign = minus THEN <<"-">> ELSE <<>>)
        \o toString(r.numerator) \o <<"/">> \o toString(r.denominator)

\* Rational::toString
RatToString(r) ==
    (IF r.sign = minus THEN <<"-">> ELSE <<>>)
        \o toString(r.numerator)
        \o (IF ~is_one(r.denominator)
            THEN <<"/">> \o toString(r.denominator) ELSE <<>>)
RatToString_throws(r) ==
    \/ toString_throws(r.numerator)
    \/ ~is_one(r.denominator) /\ toString_throws(r.denominator)

\* std::string::substr(pos, count) for pos <= size()
substr(text, pos, count) ==
    SubSeq(text, pos + 1,
           IF pos + count > Len(text) THEN Len(text) ELSE pos + count)

\* asDecimal's first two statements: numerator * "10...0", then /= denominator
scaled(r, precision) ==
    MulAssign(r.numerator, BigIntegerFromString(<<"1">> \o Zeros(precision)))
asDecimal_throws(r, precision) ==
    \/ DivAssign_throws(scaled(r, precision), r.denominator)
    \/ toString_throws(DivAssign(scaled(r, precision), r.denominator))

\* mutant: the fractional digits are not padded on the left
asDecimal_nopad(r, precision) ==
    LET decimal == toString(DivAssign(scaled(r, precision), r.denominator))
        pos == Max(0, Len(decimal) - precision)
    IN  (IF r.sign = minus THEN <<"-">> ELSE <<>>)
            \o (IF pos = 0 THEN <<"0">> ELSE <<>>)
            \o substr(decimal, 0, pos) \o <<".">>
            \o substr(decimal, pos, precision)

\* Rational::asDecimal: decimal.size() - precision is computed in size_t and
\* cast to int, which is the difference itself for the sizes of this model
asDecimal(r, precision) ==
    LET decimal == toString(DivAssign(scaled(r, precision), r.denominator))
        pos == Max(0, Len(decimal) - precision)
    IN  (IF r.sign = minus THEN <<"-">> ELSE <<>>)
            \o (IF pos = 0 THEN <<"0">> ELSE <<>>)
            \o substr(decimal, 0, pos) \o <<".">>
            \o Zeros(precision - (Len(decimal) - pos))
            \o substr(decimal, pos, precision)

\* operator== and operator< of Rational
RatEqual(lhs, rhs) ==
    IF lhs.sign # rhs.sign THEN FALSE
    ELSE Equal(lhs.numerator, rhs.numerator)
            /\ Equal(lhs.denominator, rhs.denominator)
RatLess(lhs, rhs) ==
    IF lhs.sign # rhs.sign THEN SignLess(lhs.sign, rhs.sign)
    ELSE (lhs.sign = minus)
            # Less(MulAssign(lhs.numerator, rhs.denominator),
                   MulAssign(rhs.numerator, lhs.denominator))
\* the comparison operator named o, the others built as for BigInteger
RatCompare(o, lhs, rhs) ==
    CASE o = "==" -> RatEqual(lhs, rhs)
      [] o = "!=" -> ~RatEqual(lhs, rhs)
      [] o = "<" -> RatLess(lhs, rhs)
      [] o = ">" -> RatLess(rhs, lhs)
      [] o = "<=" -> ~RatLess(rhs, lhs)
      [] o = ">=" -> ~RatLess(lhs, rhs)
RatCompoundValue(o, this, x) ==
    CASE o = "+" -> RatPlusAssign(this, x)
      [] o = "-" -> RatMinusAssign(this, x)
      [] o = "*" -> RatMulAssign(this, x)
      [] o = "/" -> RatDivAssign(this, x)

\* ------------------------------------------- objects and their storage
\* The member std::vector<int> a of a BigInteger owns one block of storage.
\* A heap h is the sequence of the blocks allocated so far, each with the
\* elements it holds; an object holds the index of its block and its sign,
\* a Rational object holds its two BigInteger objects and its sign.
BigObj(block, sg) == [a |-> block, sign |-> sg]
\* the BigInteger and the Rational an object stands for
load(h, o) == BigInt(h[o.a], o.sign)
loadR(h, o) == Rat(load(h, o.numerator), load(h, o.denominator), o.sign)

\* mutant: the copy holds the block of its source
copy_construct_shared(h, x) == [heap |-> h, obj |-> x]
\* BigInteger(const BigInteger& x) : a(x.a), sign(x.sign): the vector's copy
\* constructor allocates a block and copies the elements into it
copy_construct(h, x) ==
    [heap |-> Append(h, h[x.a]), obj |-> BigObj(Len(h) + 1, x.sign)]
\* BigInteger() : a({0}), sign(Sign::plus)
default_construct(h) ==
    [heap |-> Append(h, <<0>>), obj |-> BigObj(Len(h) + 1, plus)]
\* operator=: a = x.a copies the elements into the block of this
assign(h, this, x) ==
    [heap |-> [h EXCEPT ![this.a] = h[x.a]],
     obj |-> [this EXCEPT !.sign = x.sign]]
\* a compound assignment writes the members a and sign of this, and of no
\* other object: its parameter is a const reference, its temporaries are
\* copies
store(h, this, v) ==
    [heap |-> [h EXCEPT ![this.a] = v.a],
     obj |-> [this EXCEPT !.sign = v.sign]]
compound(h, o, this, x) ==
    store(h, this, CompoundValue(o, load(h, this), load(h, x)))
\* the binary operators: BigInteger copy = lhs; copy o= rhs; return copy;
binary(h, o, lhs, rhs) ==
    LET copy == copy_construct(h, lhs)
    IN  compound(copy.heap, o, copy.obj, rhs)

\* Rational(const Rational& x) : numerator(x.numerator),
\* denominator(x.denominator), sign(x.sign)
rat_copy_construct(h, x) ==
    LET num == copy_construct(h, x.numerator)
        den == copy_construct(num.heap, x.denominator)
    IN  [heap |-> den.heap, obj |-> Rat(num.obj, den.obj, x.sign)]
\* a compound assignment of Rational writes numerator, denominator and sign
\* of this
rat_store(h, this, v) ==
    [heap |-> [h EXCEPT ![this.numerator.a] = v.numerator.a,
                        ![this.denominator.a] = v.denominator.a],
     obj |-> Rat(BigObj(this.numerator.a, v.numerator.sign),
                 BigObj(this.denominator.a, v.denominator.sign), v.sign)]
rat_compound(h, o, this, x) ==
    rat_store(h, this, RatCompoundValue(o, loadR(h, this), loadR(h, x)))
\* this o= this: the parameter x is a reference to the object itself
RatSelfValue(o, this) ==
    CASE o = "+" -> normalize(RatPlusBody(this, this, TRUE))
      [] o = "-" -> normalize(RatMinusBody(this, this, TRUE))
      [] o = "*" -> normalize(RatMulBody(this, this, TRUE))
      [] o = "/" -> normalize(RatDivBody(this, this, TRUE))
rat_compound_self(h, o, this) ==
    rat_store(h, this, RatSelfValue(o, loadR(h, this)))
\* the binary operators: Rational copy = lhs; copy o= rhs; return copy;
rat_binary(h, o, lhs, rhs) ==
    LET copy == rat_copy_construct(h, lhs)
    IN  rat_compound(copy.heap, o, copy.obj, rhs)

\* --------------------------------------------------------------- Residue
\* IsPrime<N>::prime: trial division by D = 2, 3, ... while D * D <= N
RECURSIVE IsPrimeHelper(_, _, _)
IsPrimeHelper(N, D, fl) ==
    IF ~fl THEN TRUE
    ELSE CMod(N, D) # 0 /\ IsPrimeHelper(N, D + 1, (D + 1) * (D + 1) <= N)
IsPrime(N) == IF N = 1 THEN FALSE ELSE IsPrimeHelper(N, 2, 2 * 2 <= N)

\* Residue(int x) : value((x % (int) N + N) % N). x % (int) N is an int of
\* the sign of x; the sum is taken in size_t, where a negative remainder r
\* stands for 2^64 + r and the sum wraps to r + N, which is in 1..N-1
ResidueFromInt(N, x) == (CMod(x, N) + N) % N
\* operator*=: value * x.value is below N * N, which is below 2^64 for
\* every N that is an int
ResMulAssign(N, value, x) == (value * x) % N
\* operator*: copy = lhs; copy *= rhs
ResTimes(N, lhs, rhs) == ResMulAssign(N, lhs, rhs)
\* bin_pow(x, m): the loop on result, x and m
RECURSIVE bin_pow_loop(_, _, _, _)
bin_pow_loop(N, result, x, m) ==
    IF m = 0 THEN result
    ELSE bin_pow_loop(N, IF m % 2 = 1 THEN ResTimes(N, result, x) ELSE result,
                      ResTimes(N, x, x), m \div 2)
bin_pow(N, x, m) == bin_pow_loop(N, ResidueFromInt(N, 1), x, m)
\* mutant: the exponent is N - 1
inv_whole_order(N, x) == bin_pow(N, x, N - 1)
inv(N, x) == bin_pow(N, x, N - 2)
\* operator/=, compiled for the N that pass static_assert(IsPrime<N>::prime)
ResDivAssign(N, value, x) == (value * inv(N, x)) % N
\* operator/: copy = lhs; copy /= rhs
ResOver(N, lhs, rhs) == ResDivAssign(N, lhs, rhs)
\* operator!=
ResNotEqual(lhs, rhs) == lhs # rhs

\* ---------------------------------------------------------------- Matrix
\* A Field F is Residue<F.N> or BigNumber::Rational, the Rational above with
\* groups of six digits; a Residue is its value, a Rational its record.
\* Residue::operator+= and operator-=: the difference is taken in size_t,
\* where value - x.value + N wraps back into 1..2N-1
ResCompoundValue(N, o, value, x) ==
    CASE o = "+" -> (value + x) % N
      [] o = "-" -> (value - x + N) % N
      [] o = "*" -> ResMulAssign(N, value, x)
      [] o = "/" -> ResDivAssign(N, value, x)
\* Field(int), explicit operator bool, operator==
FieldFromInt(F, k) ==
    IF F.kind = "Rational" THEN RationalFromInt(k) ELSE ResidueFromInt(F.N, k)
FieldBool(F, x) == IF F.kind = "Rational" THEN ~RatIsZero(x) ELSE x # 0
FieldEqual(F, x, y) == IF F.kind = "Rational" THEN RatEqual(x, y) ELSE x = y
\* x o= y for a compound assignment of the Field; x o y is a copy of x
\* followed by it
FieldCompound(F, o, x, y) ==
    ByValue2(LAMBDA this, other :
                 IF F.kind = "Rational" THEN RatCompoundValue(o, this, other)
                 ELSE ResCompoundValue(F.N, o, this, other),
             x, y)

\* std::vector<T>: the elements of the vector, each held by value
vector(f) == SubSeq(f, 1, Len(f))

\* get_first_nonzero_pos(row): the first i < N with a[i] true, else N
RECURSIVE get_first_nonzero_pos(_, _, _, _)
get_first_nonzero_pos(F, row, i, N) ==
    IF i >= N THEN N
    ELSE IF FieldBool(F, row[i + 1]) THEN i
    ELSE get_first_nonzero_pos(F, row, i + 1, N)
\* subtract_row(a, b, mul_number) and div_row(a, div_number); the number is
\* passed by value
subtract_row(F, a, b, mul_number) ==
    vector([i \in 1..Len(a) |->
        FieldCompound(F, "-", a[i], FieldCompound(F, "*", b[i], mul_number))])
div_row(F, a, div_number) ==
    vector([i \in 1..Len(a) |-> FieldCompound(F, "/", a[i], div_number)])

\* transform_to_triangular_matrix: the search of the row j > i whose first
\* nonzero position is smaller than the best so far
RECURSIVE best_row(_, _, _, _, _, _)
best_row(F, a, j, pos, best_i, N) ==
    IF j >= Len(a) THEN [pos |-> pos, best_i |-> best_i]
    ELSE IF get_first_nonzero_pos(F, a[j + 1], 0, N) < pos
         THEN best_row(F, a, j + 1, get_first_nonzero_pos(F, a[j + 1], 0, N),
                       j, N)
         ELSE best_row(F, a, j + 1, pos, best_i, N)
\* mutant: the rows are not exchanged
swap_rows_off(a, i, j) == a
\* std::swap(a[i], a[best_i])
swap_rows(a, i, j) == [a EXCEPT ![i + 1] = a[j + 1], ![j + 1] = a[i + 1]]
\* mutant: the determinant is not negated for an odd number of swaps
tri_end_unsigned(F, a, cnt_swaps, det) == [a |-> a, det |-> det]
\* if (cnt_swaps & 1) det *= -1; return det;
tri_end(F, a, cnt_swaps, det) ==
    [a |-> a,
     det |-> IF cnt_swaps % 2 = 1
             THEN FieldCompound(F, "*", det, FieldFromInt(F, -1)) ELSE det]
\* the body of the loop on i, statement by statement: what the body leaves
\* in a, cnt_swaps and det for the next i, or what it returns
tri_eliminate(F, a, i, cnt_swaps, det, N, pos) ==
    [returned |-> FALSE,
     a |-> vector([j \in 1..Len(a) |->
               IF j > i + 1
               THEN subtract_row(F, a[j], a[i + 1], a[j][pos + 1])
               ELSE a[j]]),
     cnt_swaps |-> cnt_swaps,
     det |-> det]
tri_reduce(F, a, i, cnt_swaps, det, N, pos) ==
    IF pos >= N
    THEN [returned |-> TRUE, value |-> tri_end(F, a, cnt_swaps, det)]
    ELSE tri_eliminate(
             F, [a EXCEPT ![i + 1] = div_row(F, a[i + 1], a[i + 1][pos + 1])],
             i, cnt_swaps, det, N, pos)
tri_pivot(F, a, i, cnt_swaps, det, N, pos) ==
    tri_reduce(F, a, i, cnt_swaps,
               IF Len(a) = N
               THEN FieldCompound(F, "*", det, a[i + 1][i + 1]) ELSE det,
               N, pos)
tri_select(F, a, i, cnt_swaps, det, N, sel) ==
    IF sel.best_i # i
    THEN tri_pivot(F, swap_rows(a, i, sel.best_i), i, cnt_swaps + 1, det, N,
                   sel.pos)
    ELSE tri_pivot(F, a, i, cnt_swaps, det, N, sel.pos)
tri_body(F, a, i, cnt_swaps, det, N) ==
    tri_select(F, a, i, cnt_swaps, det, N,
               best_row(F, a, i + 1,
                        get_first_nonzero_pos(F, a[i + 1], 0, N), i, N))
\* the loop on i
RECURSIVE tri_loop(_, _, _, _, _, _)
tri_loop(F, a, i, cnt_swaps, det, N) ==
    IF i >= Len(a) THEN tri_end(F, a, cnt_swaps, det)
    ELSE ByValue(LAMBDA body :
                     IF body.returned THEN body.value
                     ELSE tri_loop(F, body.a, i + 1, body.cnt_swaps, body.det,
                                   N),
                 tri_body(F, a, i, cnt_swaps, det, N))
\* a.transform_to_triangular_matrix() of a matrix with N columns: the matrix
\* left in a and the Field returned
transform_to_triangular_matrix(F, a, N) ==
    tri_loop(F, a, 0, 0, FieldFromInt(F, 1), N)

\* det(): on a copy
det(F, a) == transform_to_triangular_matrix(F, a, Len(a)).det

\* invert(): the copy of M rows and 2 * N columns holding a and the unit
\* matrix
augmented(F, a) ==
    vector([i \in 1..Len(a) |->
        vector([j \in 1..(2 * Len(a)) |->
            IF j <= Len(a) THEN a[i][j]
            ELSE IF j = Len(a) + i THEN FieldFromInt(F, 1)
            ELSE FieldFromInt(F, 0)])])
\* the loop on i that subtracts row M - 1 - i from the rows above it
RECURSIVE back_loop(_, _, _)
back_loop(F, copy, i) ==
    IF i >= Len(copy) THEN copy
    ELSE ByValue(LAMBDA above : back_loop(F, above, i + 1),
                 vector([j \in 1..Len(copy) |->
                     IF j - 1 < Len(copy) - 1 - i
                     THEN subtract_row(F, copy[j], copy[Len(copy) - i],
                                       copy[j][Len(copy) - i])
                     ELSE copy[j]]))
right_half(copy) ==
    vector([i \in 1..Len(copy) |->
        vector([j \in 1..Len(copy) |-> copy[i][Len(copy) + j]])])
invert(F, a) ==
    ByValue(LAMBDA tri : right_half(back_loop(F, tri.a, 0)),
            transform_to_triangular_matrix(F, augmented(F, a), 2 * Len(a)))
\* inverted(): copy = *this; copy.invert(); return copy
inverted(F, a) == invert(F, a)

\* Matrix(): the unit matrix when M == N
UnitMatrix(F, M) ==
    vector([i \in 1..M |->
        vector([j \in 1..M |->
            IF i = j THEN FieldFromInt(F, 1) ELSE FieldFromInt(F, 0)])])
\* operator*(lhs, rhs): result[i][t] += lhs[i][j] * rhs[j][t] for j = 0, 1, ...
RECURSIVE times_sum(_, _, _, _, _, _, _)
times_sum(F, lhs, rhs, i, t, j, acc) ==
    IF j > Len(rhs) THEN acc
    ELSE ByValue(LAMBDA sum : times_sum(F, lhs, rhs, i, t, j + 1, sum),
                 FieldCompound(F, "+", acc,
                               FieldCompound(F, "*", lhs[i][j], rhs[j][t])))
MatTimes(F, lhs, rhs) ==
    vector([i \in 1..Len(lhs) |->
        vector([t \in 1..Len(rhs[1]) |->
            times_sum(F, lhs, rhs, i, t, 1, FieldFromInt(F, 0))])])
\* operator!=(lhs, rhs)
MatNotEqual(F, lhs, rhs) ==
    \E i \in 1..Len(lhs) : \E j \in 1..Len(lhs[i]) :
        ~FieldEqual(F, lhs[i][j], rhs[i][j])
\* a[i][j] = x[i][j] for a matrix of ints
MatrixFromInts(F, x) ==
    vector([i \in 1..Len(x) |->
        vector([j \in 1..Len(x[i]) |-> FieldFromInt(F, x[i][j])])])

\* ------------------------------------------------------------ the inputs
\* the values a digit group of an operand is drawn from
GroupVals == {0, 1, 7, 99}
\* the digits an input string is built from
InputDigits == {"0", "1", "7", "9"}
IntInputs == {IntMin, -12345, -100, -7, -1, 0, 1, 7, 99, 100, 12345, IntMax}

\* canonical digit vectors of at most MaxGroups groups
Magnitudes ==
    {v \in UNION {[1..m -> GroupVals] : m \in 1..MaxGroups} :
        Len(v) = 1 \/ v[Len(v)] # 0}
\* canonical BigIntegers: zero is positive
Operands ==
    {BigInt(v, sg) : v \in Magnitudes, sg \in {plus}} \cup
    {BigInt(v, sg) : v \in {w \in Magnitudes : w # <<0>>}, sg \in {minus}}

DigitStrings == UNION {[1..m -> InputDigits] : m \in 1..MaxStrLen}
\* valid decimal literals: an optional '-', then one or more digits
InputStrings == DigitStrings \cup {<<"-">> \o d : d \in DigitStrings}
\* character sequences that are not one decimal literal: empty, a lone sign,
\* a character that is no digit, whitespace around or inside
MalformedStrings ==
    {<<>>, <<"-">>, <<"a">>, <<"1", "a">>, <<"+", "1">>, <<"1", "-">>,
     <<"-", "-", "1">>, <<"-", "a">>, <<" ">>, <<" ", "1">>, <<"7", " ">>,
     <<"1", " ", "7">>, <<" ", "a">>}

\* the operand pairs of the documented scenarios
ExamplePairs ==
    {<<BigIntegerFromString(<<"9", "9", "9">>), BigIntegerFromString(<<"1">>)>>,
     <<BigIntegerFromString(<<"-", "7">>), BigIntegerFromString(<<"2">>)>>,
     <<BigIntegerFromString(<<"1", "2", "3", "4", "5", "6", "7", "8", "9">>),
       BigIntegerFromString(<<"9", "8", "7", "6", "5", "4", "3", "2", "1">>)>>}

\* ------------------------------------------------------------- the state
VARIABLES
    lhs,    \* the left (or only) operand object
    rhs,    \* the right operand object
    s,      \* the string handed to BigInteger(const std::string&), or the
            \* characters left in the stream operator>> reads from
    n,      \* the int handed to BigInteger(int)
    res,    \* the object the last operation produced or mutated
    str,    \* the std::string the last operation returned
    op,     \* the last operation, "start" before the first
    err,    \* the exception the last operation left by, "none" if it returned
    flag,   \* the bool the last comparison returned
    fail    \* the failbit of the stream after operator>>

\* the Rational under operation
VARIABLES
    rat,    \* the Rational object
    rsrc,   \* the argument of the constructor that built it
    rprev,  \* the object before the last arithmetic operation on it
    rarg,   \* the right operand of the last arithmetic operation
    rop,    \* the last arithmetic operation, the constructor before the first
    rsteps, \* the number of arithmetic operations so far
    rdivzero, \* whether one of them was a division by a zero Rational
    rfmt,   \* "toString" or "asDecimal" after a rendering of rat, else "none"
    rprec,  \* the precision of the last asDecimal
    rtext,  \* the std::string the rendering returned
    rerr    \* the exception the last operation left by, "none" if it returned

\* two operand objects and the storage of their digits
VARIABLES
    heap,   \* the blocks of digit storage allocated so far
    vkind,  \* the class of the operands, "BigInteger" or "Rational"
    vl,     \* the left operand object
    vr,     \* the right operand object
    vres,   \* <<the object the last operator returned or constructed>>
    vold,   \* the values of the objects before the last operation
    vop,    \* the last operation
    vtarget, \* the object it is to change: "l", "res", "new" or "none"
    vflag   \* the bool the last comparison returned

\* the Residue<N> of a run
VARIABLES
    modN,   \* the modulus N
    modin,  \* the int handed to Residue(int)
    modx,   \* the value of x
    mody,   \* the value of y = Residue<N>(1) / x
    modz,   \* the value of y * x
    modne,  \* the bool y * x != Residue<N>(1)
    modop   \* the last operation

bigvars == <<lhs, rhs, s, n, res, str, op, err, flag, fail>>
ratvars ==
    <<rat, rsrc, rprev, rarg, rop, rsteps, rdivzero, rfmt, rprec, rtext, rerr>>
valvars == <<heap, vkind, vl, vr, vres, vold, vop, vtarget, vflag>>
modvars == <<modN, modin, modx, mody, modz, modne, modop>>
\* the Matrix of a run: the Field and the ints it is built from, the matrix,
\* its determinant, the matrix with row 0 divided by the determinant and the
\* determinant of that, the inverse, the product of the inverse and the
\* matrix, the last operation
VARIABLES matF, matA, matM, matDet, matScaled, matScaledDet, matInv, matProd,
          matop
matvars ==
    <<matF, matA, matM, matDet, matScaled, matScaledDet, matInv, matProd,
      matop>>

\* the loops of operator/= and gcd, run step by step: the function and its
\* arguments, the objects the loop works on (for operator/= la is *this and
\* lb is sub, for gcd they are a and b), degree, number and result of
\* operator/=, the place in the code
VARIABLES lkind, lx, ly, la, lb, ldegree, lnumber, lresult, lpc
stepvars == <<lkind, lx, ly, la, lb, ldegree, lnumber, lresult, lpc>>

\* the pointers to one control block: the control block, the SharedPtr and
\* the WeakPtr objects ("none" for an object that does not exist, "null" for
\* one whose control_block_ is nullptr, "block" for one that holds the
\* control block), the last operation and what the last lock() met
VARIABLES pcb, psh, pwk, pop, plock
ptrvars == <<pcb, psh, pwk, pop, plock>>

\* the two List objects a and b of a run: the source the List is built from,
\* the nodes with their links and values, the last operation, the elements
\* of a and b before it, and what the last reverse traversal visited
VARIABLES qsrc, qheap, qop, qold, qvisit
listvars == <<qsrc, qheap, qop, qold, qvisit>>

\* the UnorderedMap of a run: the map (buckets_cnt_, buckets_ and list_ with
\* its nodes), the last operation and what it returned
VARIABLES umap, uop, uret
mapvars == <<umap, uop, uret>>

vars == <<bigvars, ratvars, valvars, modvars, matvars, stepvars, ptrvars, listvars, mapvars>>
\* what the operations on BigInteger objects and on the Rational object leave alone
notBig == <<ratvars, valvars, modvars, matvars, stepvars, ptrvars, listvars, mapvars>>
notRat == <<bigvars, valvars, modvars, matvars, stepvars, ptrvars, listvars, mapvars>>
notVal == <<bigvars, ratvars, modvars, matvars, stepvars, ptrvars, listvars, mapvars>>
notMod == <<bigvars, ratvars, valvars, matvars, stepvars, ptrvars, listvars, mapvars>>
notMat == <<bigvars, ratvars, valvars, modvars, stepvars, ptrvars, listvars, mapvars>>
notStep == <<bigvars, ratvars, valvars, modvars, matvars, ptrvars, listvars, mapvars>>
notPtr == <<bigvars, ratvars, valvars, modvars, matvars, stepvars, listvars, mapvars>>
notList == <<bigvars, ratvars, valvars, modvars, matvars, stepvars, ptrvars, mapvars>>
notMap == <<bigvars, ratvars, valvars, modvars, matvars, stepvars, ptrvars, listvars>>

\* no BigInteger operand is under operation
BigIdle ==
    /\ lhs = BigInteger /\ rhs = BigInteger /\ s = <<"0">> /\ n = 0
    /\ res = BigInteger /\ str = <<>> /\ op = "idle" /\ err = "none"
    /\ flag = FALSE /\ fail = FALSE
\* no Rational is under operation
RatIdle ==
    /\ rat = Rational /\ rsrc = [kind |-> "none", arg |-> 0]
    /\ rprev = Rational /\ rarg = Rational /\ rop = "idle" /\ rsteps = 0
    /\ rdivzero = FALSE
    /\ rfmt = "none" /\ rprec = 0 /\ rtext = <<>> /\ rerr = "none"
\* no operand objects are under operation
ValIdle ==
    /\ heap = <<>> /\ vkind = "none" /\ vl = <<>> /\ vr = <<>> /\ vres = <<>>
    /\ vold = <<>> /\ vop = "idle" /\ vtarget = "none" /\ vflag = FALSE
\* no Residue is under operation
ModIdle ==
    /\ modN = 1 /\ modin = 0 /\ modx = 0 /\ mody = 0 /\ modz = 0
    /\ modne = FALSE /\ modop = "idle"

\* no Matrix is under operation
MatIdle ==
    /\ matF = [kind |-> "none", N |-> 0] /\ matA = <<>> /\ matM = <<>>
    /\ matDet = 0 /\ matScaled = <<>> /\ matScaledDet = 0 /\ matInv = <<>>
    /\ matProd = <<>> /\ matop = "idle"

\* no loop is run step by step
StepIdle ==
    /\ lkind = "none" /\ lx = BigInteger /\ ly = BigInteger /\ la = BigInteger
    /\ lb = BigInteger /\ ldegree = 0 /\ lnumber = 0 /\ lresult = <<>>
    /\ lpc = "idle"

\* no pointer is under operation
PtrIdle ==
    /\ pcb = <<>> /\ psh = <<>> /\ pwk = <<>> /\ pop = "idle" /\ plock = "none"

\* no List is under operation
ListIdle ==
    /\ qsrc = "none" /\ qheap = <<>> /\ qop = "idle" /\ qold = <<>>
    /\ qvisit = "none"

\* no UnorderedMap is under operation
MapIdle ==
    /\ umap = <<>> /\ uop = "idle" /\ uret = <<>>

Init ==
    /\ \/ /\ \E p \in (Operands \X Operands) \cup ExamplePairs :
                lhs = p[1] /\ rhs = p[2]
          /\ s = <<"0">>
          /\ n = 0
       \/ /\ lhs = BigInteger /\ rhs = BigInteger
          /\ s \in InputStrings \cup MalformedStrings
          /\ n = 0
       \/ /\ lhs = BigInteger /\ rhs = BigInteger
          /\ s = <<"0">>
          /\ n \in IntInputs
    /\ res = BigInteger
    /\ str = <<>>
    /\ op = "start"
    /\ err = "none"
    /\ flag = FALSE
    /\ fail = FALSE
    /\ RatIdle
    /\ ValIdle
    /\ ModIdle
    /\ MatIdle
    /\ StepIdle
    /\ PtrIdle
    /\ ListIdle
    /\ MapIdle

\* BigInteger(const std::string&) on the input s
StringCtor ==
    /\ op = "start"
    /\ res' = BigIntegerFromString(s)
    /\ str' = <<>>
    /\ op' = "BigInteger(string)"
    /\ err' = "none"
    /\ UNCHANGED <<lhs, rhs, s, n, flag, fail>>
    /\ UNCHANGED notBig

\* operator>>(in, res) on a stream that holds the characters s: in >> s
\* extracts a word, a = s converts it with BigInteger(const std::string&)
\* and assigns it
StreamRead ==
    /\ op = "start"
    /\ str' = extract_string(s)
    /\ fail' = extract_fails(s)
    /\ res' = BigIntegerFromString(extract_string(s))
    /\ op' = ">>"
    /\ err' = "none"
    /\ UNCHANGED <<lhs, rhs, s, n, flag>>
    /\ UNCHANGED notBig

\* BigInteger(int) on the input n
IntCtor ==
    /\ op = "start"
    /\ \E v \in BigIntegerFromInt(n) : res' = v
    /\ str' = <<>>
    /\ op' = "BigInteger(int)"
    /\ err' = "none"
    /\ UNCHANGED <<lhs, rhs, s, n, flag, fail>>
    /\ UNCHANGED notBig

\* BigInteger(const BigInteger&)
CopyCtor ==
    /\ op = "start"
    /\ res' = lhs
    /\ str' = <<>>
    /\ op' = "copy"
    /\ err' = "none"
    /\ UNCHANGED <<lhs, rhs, s, n, flag, fail>>
    /\ UNCHANGED notBig

\* operator*: copy = lhs; copy *= rhs
Mul ==
    /\ op = "start"
    /\ res' = MulAssign(lhs, rhs)
    /\ str' = <<>>
    /\ op' = "*"
    /\ err' = "none"
    /\ UNCHANGED <<lhs, rhs, s, n, flag, fail>>
    /\ UNCHANGED notBig

\* operator+: copy = lhs; copy += rhs
Add ==
    /\ op = "start"
    /\ res' = PlusAssign(lhs, rhs)
    /\ str' = <<>>
    /\ op' = "+"
    /\ err' = "none"
    /\ UNCHANGED <<lhs, rhs, s, n, flag, fail>>
    /\ UNCHANGED notBig

\* operator-: copy = lhs; copy -= rhs
Sub ==
    /\ op = "start"
    /\ res' = MinusAssign(lhs, rhs)
    /\ str' = <<>>
    /\ op' = "-"
    /\ err' = "none"
    /\ UNCHANGED <<lhs, rhs, s, n, flag, fail>>
    /\ UNCHANGED notBig

\* operator/: copy = lhs; copy /= rhs
Div ==
    /\ op = "start"
    /\ res' = DivAssign(lhs, rhs)
    /\ str' = <<>>
    /\ op' = "/"
    /\ err' = "none"
    /\ UNCHANGED <<lhs, rhs, s, n, flag, fail>>
    /\ UNCHANGED notBig

\* operator%: copy = lhs; copy %= rhs
Mod ==
    /\ op = "start"
    /\ res' = ModAssign(lhs, rhs)
    /\ str' = <<>>
    /\ op' = "%"
    /\ err' = "none"
    /\ UNCHANGED <<lhs, rhs, s, n, flag, fail>>
    /\ UNCHANGED notBig

\* operator++ on a copy of lhs
Inc ==
    /\ op = "start"
    /\ res' = PreInc(lhs)
    /\ str' = <<>>
    /\ op' = "++"
    /\ err' = "none"
    /\ UNCHANGED <<lhs, rhs, s, n, flag, fail>>
    /\ UNCHANGED notBig

\* operator-- on a copy of lhs
Dec ==
    /\ op = "start"
    /\ res' = PreDec(lhs)
    /\ str' = <<>>
    /\ op' = "--"
    /\ err' = "none"
    /\ UNCHANGED <<lhs, rhs, s, n, flag, fail>>
    /\ UNCHANGED notBig

\* unary operator-
Neg ==
    /\ op = "start"
    /\ res' = Negate(lhs)
    /\ str' = <<>>
    /\ op' = "neg"
    /\ err' = "none"
    /\ UNCHANGED <<lhs, rhs, s, n, flag, fail>>
    /\ UNCHANGED notBig

\* operator<(lhs, rhs)
LessThan ==
    /\ op = "start"
    /\ flag' = Less(lhs, rhs)
    /\ op' = "<"
    /\ err' = "none"
    /\ UNCHANGED <<lhs, rhs, s, n, res, str, fail>>
    /\ UNCHANGED notBig

\* operator==(lhs, rhs)
EqualTo ==
    /\ op = "start"
    /\ flag' = Equal(lhs, rhs)
    /\ op' = "=="
    /\ err' = "none"
    /\ UNCHANGED <<lhs, rhs, s, n, res, str, fail>>
    /\ UNCHANGED notBig

\* res.toString()
ToStr ==
    /\ op # "toString"
    /\ IF toString_undefined(res)
       THEN /\ str' = <<>>
            /\ err' \in {"segfault", "unspecified"}
       ELSE IF toString_throws(res)
       THEN /\ str' = <<>>
            /\ err' = "length_error"
       ELSE /\ str' = toString(res)
            /\ err' = "none"
    /\ op' = "toString"
    /\ UNCHANGED <<lhs, rhs, s, n, res, flag, fail>>
    /\ UNCHANGED notBig

Next ==
    \/ StringCtor
    \/ StreamRead
    \/ IntCtor
    \/ CopyCtor
    \/ Mul
    \/ Add
    \/ Sub
    \/ Div
    \/ Mod
    \/ Inc
    \/ Dec
    \/ Neg
    \/ LessThan
    \/ EqualTo
    \/ ToStr

Spec == Init /\ [][Next]_vars

\* ------------------------------------------- the Rational under operation
\* the longest sequence of arithmetic operations on the Rational
MaxSteps == 2
\* the ints and the canonical BigIntegers a Rational is constructed from
RatInts == {IntMin, -7, 0, 1, 2, 4}
RatBigs == {BigIntegerOf(0), BigIntegerOf(123), BigIntegerOf(-7)}
\* the right operands: Rationals built from ints, and the reduced fractions
\* 1/6 and -1/3
RatArgs ==
    {RationalFromInt(k) : k \in {0, 2, 3, 4, 47}} \cup
    {Rat(BigIntegerOf(1), BigIntegerOf(6), plus),
     Rat(BigIntegerOf(1), BigIntegerOf(3), minus)}
\* the precisions asDecimal is called with
Precisions == {0, 1, 4}

\* The caller's sequences that are followed: the first operation on any
\* constructed object, and further operations on an object all of whose
\* digit groups are digits of the base (from an object that holds another
\* group the loop of gcd need not end and the run stops there).
Followed(r) ==
    \/ rsteps = 0
    \/ /\ \A i \in 1..Len(r.numerator.a) : r.numerator.a[i] \in 0..(base - 1)
       /\ \A i \in 1..Len(r.denominator.a) : r.denominator.a[i] \in 0..(base - 1)

InitR ==
    /\ BigIdle
    /\ ValIdle
    /\ ModIdle
    /\ MatIdle
    /\ StepIdle
    /\ PtrIdle
    /\ ListIdle
    /\ MapIdle
    /\ \/ \E k \in RatInts :
            /\ rsrc = [kind |-> "int", arg |-> k]
            /\ rat \in RationalFromIntOutcomes(k)
       \/ \E b \in RatBigs :
            /\ rsrc = [kind |-> "BigInteger", arg |-> b]
            /\ rat = RationalFromBig(b)
       \/ /\ rsrc = [kind |-> "default", arg |-> 0]
          /\ rat = Rational
    /\ rprev = Rational /\ rarg = Rational /\ rop = "ctor" /\ rsteps = 0
    /\ rdivzero = FALSE
    /\ rfmt = "none" /\ rprec = 0 /\ rtext = <<>> /\ rerr = "none"

\* rat *= x
RatMul ==
    /\ rerr = "none" /\ rfmt = "none" /\ rsteps < MaxSteps /\ Followed(rat)
    /\ \E x \in RatArgs :
        \E run \in {normalize_run(RatMulBody(rat, x, FALSE))} :
            /\ rat' = run.obj
            /\ rerr' = run.how
            /\ rarg' = x
    /\ rprev' = rat
    /\ rop' = "*="
    /\ rsteps' = rsteps + 1
    /\ UNCHANGED <<rsrc, rdivzero, rfmt, rprec, rtext>>
    /\ UNCHANGED notRat

\* rat += x
RatAdd ==
    /\ rerr = "none" /\ rfmt = "none" /\ rsteps < MaxSteps /\ Followed(rat)
    /\ \E x \in RatArgs :
        \E run \in {normalize_run(RatPlusBody(rat, x, FALSE))} :
            /\ rat' = run.obj
            /\ rerr' = run.how
            /\ rarg' = x
    /\ rprev' = rat
    /\ rop' = "+="
    /\ rsteps' = rsteps + 1
    /\ UNCHANGED <<rsrc, rdivzero, rfmt, rprec, rtext>>
    /\ UNCHANGED notRat

\* rat -= x
RatSub ==
    /\ rerr = "none" /\ rfmt = "none" /\ rsteps < MaxSteps /\ Followed(rat)
    /\ \E x \in RatArgs :
        \E run \in {normalize_run(RatMinusBody(rat, x, FALSE))} :
            /\ rat' = run.obj
            /\ rerr' = run.how
            /\ rarg' = x
    /\ rprev' = rat
    /\ rop' = "-="
    /\ rsteps' = rsteps + 1
    /\ UNCHANGED <<rsrc, rdivzero, rfmt, rprec, rtext>>
    /\ UNCHANGED notRat

\* rat /= x: no statement of operator/= looks at the value of x
RatDiv ==
    /\ rerr = "none" /\ rfmt = "none" /\ rsteps < MaxSteps /\ Followed(rat)
    /\ \E x \in RatArgs :
        \E run \in {normalize_run(RatDivBody(rat, x, FALSE))} :
            /\ rat' = run.obj
            /\ rerr' = run.how
            /\ rarg' = x
            /\ rdivzero' = (rdivzero \/ RatIsZero(x))
    /\ rprev' = rat
    /\ rop' = "/="
    /\ rsteps' = rsteps + 1
    /\ UNCHANGED <<rsrc, rfmt, rprec, rtext>>
    /\ UNCHANGED notRat

\* rat = -rat
RatNeg ==
    /\ rerr = "none" /\ rfmt = "none" /\ rsteps < MaxSteps /\ Followed(rat)
    /\ \E run \in {normalize_run(RatNegateBody(RationalCopy(rat)))} :
        /\ rat' = IF run.how = "none" THEN run.obj ELSE rat
        /\ rerr' = run.how
    /\ rprev' = rat
    /\ rarg' = Rational
    /\ rop' = "neg"
    /\ rsteps' = rsteps + 1
    /\ UNCHANGED <<rsrc, rdivzero, rfmt, rprec, rtext>>
    /\ UNCHANGED notRat

\* rat.toString()
RatToStr ==
    /\ rerr = "none" /\ rfmt = "none"
    /\ rfmt' = "toString"
    /\ rprec' = 0
    /\ IF RatToString_throws(rat)
       THEN rtext' = <<>> /\ rerr' = "length_error"
       ELSE rtext' = RatToString(rat) /\ rerr' = "none"
    /\ UNCHANGED <<rat, rsrc, rprev, rarg, rop, rsteps, rdivzero>>
    /\ UNCHANGED notRat

\* rat.asDecimal(p)
RatAsDecimal ==
    /\ rerr = "none" /\ rfmt = "none"
    /\ \E p \in Precisions :
        /\ rprec' = p
        /\ IF asDecimal_throws(rat, p)
           THEN rtext' = <<>> /\ rerr' = "length_error"
           ELSE rtext' = asDecimal(rat, p) /\ rerr' = "none"
    /\ rfmt' = "asDecimal"
    /\ UNCHANGED <<rat, rsrc, rprev, rarg, rop, rsteps, rdivzero>>
    /\ UNCHANGED notRat

NextR ==
    \/ RatMul
    \/ RatAdd
    \/ RatSub
    \/ RatDiv
    \/ RatNeg
    \/ RatToStr
    \/ RatAsDecimal

SpecR == InitR /\ [][NextR]_vars

\* ------------------------------------- operand objects and their storage
\* the operands: canonical BigIntegers, and the Rationals of RatArgs
ValBigs ==
    {BigIntegerOf(k) : k \in {-12345, -7, 0, 7, 99, 100, 999}}
ValRats == RatArgs \cup {Rat(BigIntegerOf(1), BigIntegerOf(2), minus)}
\* a compound assignment of an object to itself
SelfOp(o) == CASE o = "+" -> "+= self" [] o = "-" -> "-= self"
               [] o = "*" -> "*= self" [] o = "/" -> "/= self"
BigOps == {"+", "-", "*", "/", "%"}
RatOps == {"+", "-", "*", "/"}
Comparisons == {"==", "!=", "<", ">", "<=", ">="}

\* the value of an object of the run's class
Loaded(h, o) == IF vkind = "Rational" THEN loadR(h, o) ELSE load(h, o)
\* the values of the three objects
Snapshot ==
    [l |-> Loaded(heap, vl), r |-> Loaded(heap, vr),
     res |-> IF vres = <<>> THEN <<>> ELSE <<Loaded(heap, vres[1])>>]

InitV ==
    /\ BigIdle
    /\ RatIdle
    /\ ModIdle
    /\ MatIdle
    /\ StepIdle
    /\ PtrIdle
    /\ ListIdle
    /\ MapIdle
    /\ \/ /\ vkind = "BigInteger"
          /\ \E x \in ValBigs, y \in ValBigs :
                /\ heap = <<x.a, y.a>>
                /\ vl = BigObj(1, x.sign)
                /\ vr = BigObj(2, y.sign)
                /\ vold = [l |-> x, r |-> y, res |-> <<>>]
       \/ /\ vkind = "Rational"
          /\ \E x \in ValRats, y \in ValRats :
                /\ heap = <<x.numerator.a, x.denominator.a,
                            y.numerator.a, y.denominator.a>>
                /\ vl = Rat(BigObj(1, x.numerator.sign),
                            BigObj(2, x.denominator.sign), x.sign)
                /\ vr = Rat(BigObj(3, y.numerator.sign),
                            BigObj(4, y.denominator.sign), y.sign)
                /\ vold = [l |-> x, r |-> y, res |-> <<>>]
    /\ vres = <<>>
    /\ vop = "start"
    /\ vtarget = "none"
    /\ vflag = FALSE

\* vl o vr for a binary operator of BigInteger
VBinary ==
    /\ vkind = "BigInteger"
    /\ vop = "start"
    /\ \E o \in BigOps : \E run \in {binary(heap, o, vl, vr)} :
          /\ heap' = run.heap
          /\ vres' = <<run.obj>>
          /\ vop' = o
    /\ vold' = Snapshot
    /\ vtarget' = "new"
    /\ UNCHANGED <<vkind, vl, vr, vflag>>
    /\ UNCHANGED notVal

\* vl o= vr, on operands as constructed or after vl was copied
VCompound ==
    /\ vkind = "BigInteger"
    /\ vop \in {"start", "copy", "="}
    /\ \E o \in BigOps : \E run \in {compound(heap, o, vl, vr)} :
          /\ heap' = run.heap
          /\ vl' = run.obj
          /\ vop' = o
    /\ vold' = Snapshot
    /\ vtarget' = "l"
    /\ UNCHANGED <<vkind, vr, vres, vflag>>
    /\ UNCHANGED notVal

\* a comparison of vl and vr
VCompare ==
    /\ vkind = "BigInteger"
    /\ vop = "start"
    /\ \E o \in Comparisons :
          /\ vflag' = Compare(o, load(heap, vl), load(heap, vr))
          /\ vop' = o
    /\ vold' = Snapshot
    /\ vtarget' = "none"
    /\ UNCHANGED <<heap, vkind, vl, vr, vres>>
    /\ UNCHANGED notVal

\* BigInteger copy(vl)
VCopy ==
    /\ vkind = "BigInteger"
    /\ vop = "start"
    /\ \E run \in {copy_construct(heap, vl)} :
          /\ heap' = run.heap
          /\ vres' = <<run.obj>>
    /\ vop' = "copy"
    /\ vold' = Snapshot
    /\ vtarget' = "new"
    /\ UNCHANGED <<vkind, vl, vr, vflag>>
    /\ UNCHANGED notVal

\* BigInteger t; t = vl;
VAssign ==
    /\ vkind = "BigInteger"
    /\ vop = "start"
    /\ \E t \in {default_construct(heap)} :
          \E run \in {assign(t.heap, t.obj, vl)} :
              /\ heap' = run.heap
              /\ vres' = <<run.obj>>
    /\ vop' = "="
    /\ vold' = Snapshot
    /\ vtarget' = "new"
    /\ UNCHANGED <<vkind, vl, vr, vflag>>
    /\ UNCHANGED notVal

\* copy o= vr on the copy of vl
VMutateCopy ==
    /\ vkind = "BigInteger"
    /\ vop \in {"copy", "="}
    /\ \E o \in BigOps : \E run \in {compound(heap, o, vres[1], vr)} :
          /\ heap' = run.heap
          /\ vres' = <<run.obj>>
          /\ vop' = o
    /\ vold' = Snapshot
    /\ vtarget' = "res"
    /\ UNCHANGED <<vkind, vl, vr, vflag>>
    /\ UNCHANGED notVal

\* vl o vr for a binary operator of Rational
VRatBinary ==
    /\ vkind = "Rational"
    /\ vop = "start"
    /\ \E o \in RatOps : \E run \in {rat_binary(heap, o, vl, vr)} :
          /\ heap' = run.heap
          /\ vres' = <<run.obj>>
          /\ vop' = o
    /\ vold' = Snapshot
    /\ vtarget' = "new"
    /\ UNCHANGED <<vkind, vl, vr, vflag>>
    /\ UNCHANGED notVal

\* vl o= vr on Rationals, as constructed or after vl was copied
VRatCompound ==
    /\ vkind = "Rational"
    /\ vop \in {"start", "copy"}
    /\ \E o \in RatOps : \E run \in {rat_compound(heap, o, vl, vr)} :
          /\ heap' = run.heap
          /\ vl' = run.obj
          /\ vop' = o
    /\ vold' = Snapshot
    /\ vtarget' = "l"
    /\ UNCHANGED <<vkind, vr, vres, vflag>>
    /\ UNCHANGED notVal

\* vl o= vl for a compound assignment of Rational
VRatSelfCompound ==
    /\ vkind = "Rational"
    /\ vop \in {"start", "copy"}
    /\ \E o \in RatOps : \E run \in {rat_compound_self(heap, o, vl)} :
          /\ heap' = run.heap
          /\ vl' = run.obj
          /\ vop' = SelfOp(o)
    /\ vold' = Snapshot
    /\ vtarget' = "l"
    /\ UNCHANGED <<vkind, vr, vres, vflag>>
    /\ UNCHANGED notVal

\* a comparison of the Rationals vl and vr
VRatCompare ==
    /\ vkind = "Rational"
    /\ vop = "start"
    /\ \E o \in Comparisons :
          /\ vflag' = RatCompare(o, loadR(heap, vl), loadR(heap, vr))
          /\ vop' = o
    /\ vold' = Snapshot
    /\ vtarget' = "none"
    /\ UNCHANGED <<heap, vkind, vl, vr, vres>>
    /\ UNCHANGED notVal

\* Rational copy(vl)
VRatCopy ==
    /\ vkind = "Rational"
    /\ vop = "start"
    /\ \E run \in {rat_copy_construct(heap, vl)} :
          /\ heap' = run.heap
          /\ vres' = <<run.obj>>
    /\ vop' = "copy"
    /\ vold' = Snapshot
    /\ vtarget' = "new"
    /\ UNCHANGED <<vkind, vl, vr, vflag>>
    /\ UNCHANGED notVal

\* copy o= vr on the copy of the Rational vl
VRatMutateCopy ==
    /\ vkind = "Rational"
    /\ vop = "copy"
    /\ \E o \in RatOps : \E run \in {rat_compound(heap, o, vres[1], vr)} :
          /\ heap' = run.heap
          /\ vres' = <<run.obj>>
          /\ vop' = o
    /\ vold' = Snapshot
    /\ vtarget' = "res"
    /\ UNCHANGED <<vkind, vl, vr, vflag>>
    /\ UNCHANGED notVal

NextV ==
    \/ VBinary
    \/ VCompound
    \/ VCompare
    \/ VCopy
    \/ VAssign
    \/ VMutateCopy
    \/ VRatBinary
    \/ VRatCompound
    \/ VRatSelfCompound
    \/ VRatCompare
    \/ VRatCopy
    \/ VRatMutateCopy

SpecV == InitV /\ [][NextV]_vars

\* ------------------------------------------------ the Residue of a run
\* the largest modulus
MaxModulus == 31
\* the ints a Residue is constructed from
ResidueInts == (-MaxModulus)..(2 * MaxModulus) \cup {-12345, 12345}

InitM ==
    /\ BigIdle
    /\ RatIdle
    /\ ValIdle
    /\ MatIdle
    /\ StepIdle
    /\ PtrIdle
    /\ ListIdle
    /\ MapIdle
    /\ modN \in 1..MaxModulus
    /\ modin \in ResidueInts
    /\ modx = 0
    /\ mody = 0
    /\ modz = 0
    /\ modne = FALSE
    /\ modop = "start"

\* Residue<N> x = modin
ResidueCtor ==
    /\ modop = "start"
    /\ modx' = ResidueFromInt(modN, modin)
    /\ modop' = "Residue(int)"
    /\ UNCHANGED <<modN, modin, mody, modz, modne>>
    /\ UNCHANGED notMod

\* y = Residue<N>(1) / x, which compiles when IsPrime<N>::prime holds
ResidueDivide ==
    /\ modop = "Residue(int)"
    /\ IsPrime(modN)
    /\ mody' = ResOver(modN, ResidueFromInt(modN, 1), modx)
    /\ modop' = "/"
    /\ UNCHANGED <<modN, modin, modx, modz, modne>>
    /\ UNCHANGED notMod

\* y * x
ResidueMultiply ==
    /\ modop = "/"
    /\ modz' = ResTimes(modN, mody, modx)
    /\ modop' = "*"
    /\ UNCHANGED <<modN, modin, modx, mody, modne>>
    /\ UNCHANGED notMod

\* y * x != Residue<N>(1)
ResidueCheck ==
    /\ modop = "*"
    /\ modne' = ResNotEqual(modz, ResidueFromInt(modN, 1))
    /\ modop' = "!="
    /\ UNCHANGED <<modN, modin, modx, mody, modz>>
    /\ UNCHANGED notMod

NextM == ResidueCtor \/ ResidueDivide \/ ResidueMultiply \/ ResidueCheck

SpecM == InitM /\ [][NextM]_vars

\* ------------------------------------------------- the Matrix of a run
\* the matrices of ints a run builds its Matrix from: every 2 x 2 matrix with
\* entries of magnitude at most MaxEntry, every 3 x 3 matrix of zeros and ones
MaxEntry == 2
SquareInts(D, E) == [1..D -> [1..D -> E]]
MatInts == SquareInts(2, (-MaxEntry)..MaxEntry) \cup SquareInts(3, {0, 1})
\* the fields: Residue<2>, Residue<3>, Residue<5> and Rational
MatFields ==
    {[kind |-> "Residue", N |-> p] : p \in {2, 3, 5}}
        \cup {[kind |-> "Rational", N |-> 0]}

InitMat ==
    /\ BigIdle
    /\ RatIdle
    /\ ValIdle
    /\ ModIdle
    /\ StepIdle
    /\ PtrIdle
    /\ ListIdle
    /\ MapIdle
    /\ matF \in MatFields
    /\ matA \in MatInts
    /\ matM = <<>>
    /\ matDet = 0
    /\ matScaled = <<>>
    /\ matScaledDet = 0
    /\ matInv = <<>>
    /\ matProd = <<>>
    /\ matop = "start"

\* SquareMatrix<N, Field> A(matA)
MatCtor ==
    /\ matop = "start"
    /\ matM' = MatrixFromInts(matF, matA)
    /\ matop' = "Matrix(vector)"
    /\ UNCHANGED <<matF, matA, matDet, matScaled, matScaledDet, matInv, matProd>>
    /\ UNCHANGED notMat

\* auto det = A.det(): const, on a copy of A
MatDet ==
    /\ matop = "Matrix(vector)"
    /\ matDet' = det(matF, matM)
    /\ matop' = "det"
    /\ UNCHANGED <<matF, matA, matM, matScaled, matScaledDet, matInv, matProd>>
    /\ UNCHANGED notMat

\* B = A; for every i: B[0][i] /= det, where det is not zero
MatScaleRow ==
    /\ matop = "det"
    /\ FieldBool(matF, matDet)
    /\ matScaled' = [matM EXCEPT ![1] = div_row(matF, matM[1], matDet)]
    /\ matop' = "row /= det"
    /\ UNCHANGED <<matF, matA, matM, matDet, matScaledDet, matInv, matProd>>
    /\ UNCHANGED notMat

\* B.det()
MatScaledDet ==
    /\ matop = "row /= det"
    /\ matScaledDet' = det(matF, matScaled)
    /\ matop' = "scaled det"
    /\ UNCHANGED <<matF, matA, matM, matDet, matScaled, matInv, matProd>>
    /\ UNCHANGED notMat

\* F = A.inverted(), after the determinants
MatInverted ==
    /\ \/ matop = "scaled det"
       \/ matop = "det" /\ ~FieldBool(matF, matDet)
    /\ matInv' = inverted(matF, matM)
    /\ matop' = "inverted"
    /\ UNCHANGED <<matF, matA, matM, matDet, matScaled, matScaledDet, matProd>>
    /\ UNCHANGED notMat

\* G = F * A
MatMultiply ==
    /\ matop = "inverted"
    /\ matProd' = MatTimes(matF, matInv, matM)
    /\ matop' = "*"
    /\ UNCHANGED <<matF, matA, matM, matDet, matScaled, matScaledDet, matInv>>
    /\ UNCHANGED notMat

\* A.invert()
MatInvert ==
    /\ matop = "*"
    /\ matM' = invert(matF, matM)
    /\ matop' = "invert"
    /\ UNCHANGED <<matF, matA, matDet, matScaled, matScaledDet, matInv, matProd>>
    /\ UNCHANGED notMat

NextMat ==
    \/ MatCtor \/ MatDet \/ MatScaleRow \/ MatScaledDet \/ MatInverted
    \/ MatMultiply \/ MatInvert

SpecMat == InitMat /\ [][NextMat]_vars

\* ------------------------------------- the loops of operator/= and gcd
\* mutant: the trial subtractions capped at 8
trial_continues_cap8(this, sub, number) == number < 8 /\ ~less_abs(this, sub)
\* operator/=: for (; number < 9; number++) { if (less_abs(*this, sub)) break;
\* the loop goes on to *this -= sub
trial_continues(this, sub, number) == number < 9 /\ ~less_abs(this, sub)
\* mutant: the arguments are not exchanged
gcd_step_noswap(a, b) == [a |-> ModAssign(a, b), b |-> b]
\* gcd: a %= b; std::swap(a, b);
gcd_step(a, b) == [a |-> b, b |-> ModAssign(a, b)]

\* the arguments: canonical BigIntegers and the pairs of the documented
\* scenarios for operator/=, canonical BigIntegers that are not negative
\* for gcd
InitL ==
    /\ BigIdle
    /\ RatIdle
    /\ ValIdle
    /\ ModIdle
    /\ MatIdle
    /\ PtrIdle
    /\ ListIdle
    /\ MapIdle
    /\ \/ /\ lkind = "/="
          /\ \E p \in (Operands \X Operands) \cup ExamplePairs :
                lx = p[1] /\ ly = p[2]
       \/ /\ lkind = "gcd"
          /\ \E p \in Operands \X Operands :
                /\ p[1].sign = plus /\ p[2].sign = plus
                /\ lx = p[1] /\ ly = p[2]
    /\ la = BigInteger
    /\ lb = BigInteger
    /\ ldegree = 0
    /\ lnumber = 0
    /\ lresult = <<>>
    /\ lpc = "start"

\* operator/= up to the loop on degree: the early return, the divisor with
\* degree zeros appended, the sign of the result
DivBegin ==
    /\ lkind = "/=" /\ lpc = "start"
    /\ IF size(ly) > size(lx)
       THEN /\ la' = BigInt(<<0>>, plus)
            /\ lpc' = "done"
            /\ UNCHANGED <<lb, ldegree, lresult>>
       ELSE /\ la' = [lx EXCEPT !.sign = plus]
            /\ ldegree' = (size(lx) - size(ly) + 1) * base_len
            /\ lb' = BigIntegerFromString(
                         toString([ly EXCEPT !.sign = plus])
                             \o Zeros((size(lx) - size(ly) + 1) * base_len))
            /\ lresult' = IF SignMul(lx.sign, ly.sign) = minus
                          THEN <<"-">> ELSE <<>>
            /\ lpc' = "trial"
    /\ lnumber' = 0
    /\ UNCHANGED <<lkind, lx, ly>>
    /\ UNCHANGED notStep

\* one turn of the loop on number: a subtraction, or the loop is left
DivTrial ==
    /\ lkind = "/=" /\ lpc = "trial"
    /\ IF trial_continues(la, lb, lnumber)
       THEN /\ la' = MinusAssign(la, lb)
            /\ lnumber' = lnumber + 1
            /\ lpc' = "trial"
       ELSE /\ lpc' = "digit"
            /\ UNCHANGED <<la, lnumber>>
    /\ UNCHANGED <<lkind, lx, ly, lb, ldegree, lresult>>
    /\ UNCHANGED notStep

\* result += char('0' + number); div10(sub); degree--
DivDigit ==
    /\ lkind = "/=" /\ lpc = "digit"
    /\ lresult' = Append(lresult, DigitChars[lnumber + 1])
    /\ lb' = div10(lb)
    /\ ldegree' = ldegree - 1
    /\ lnumber' = 0
    /\ lpc' = IF ldegree - 1 >= 0 THEN "trial" ELSE "assign"
    /\ UNCHANGED <<lkind, lx, ly, la>>
    /\ UNCHANGED notStep

\* *this = result; delete_trailing_zeroes(a); if (is_zero()) sign = plus
DivEnd ==
    /\ lkind = "/=" /\ lpc = "assign"
    /\ la' = zero_is_plus(trimmed(BigIntegerFromString(lresult)))
    /\ lpc' = "done"
    /\ UNCHANGED <<lkind, lx, ly, lb, ldegree, lnumber, lresult>>
    /\ UNCHANGED notStep

\* gcd(lx, ly): the parameters are copies of the arguments
GcdCall ==
    /\ lkind = "gcd" /\ lpc = "start"
    /\ la' = lx
    /\ lb' = ly
    /\ lpc' = "while"
    /\ UNCHANGED <<lkind, lx, ly, ldegree, lnumber, lresult>>
    /\ UNCHANGED notStep

\* while (b) { a %= b; std::swap(a, b); }
GcdStep ==
    /\ lkind = "gcd" /\ lpc = "while"
    /\ ~is_zero(lb)
    /\ \E t \in {gcd_step(la, lb)} :
          /\ la' = t.a
          /\ lb' = t.b
    /\ UNCHANGED <<lkind, lx, ly, ldegree, lnumber, lresult, lpc>>
    /\ UNCHANGED notStep

\* return a
GcdReturn ==
    /\ lkind = "gcd" /\ lpc = "while"
    /\ is_zero(lb)
    /\ lpc' = "done"
    /\ UNCHANGED <<lkind, lx, ly, la, lb, ldegree, lnumber, lresult>>
    /\ UNCHANGED notStep

NextL ==
    \/ DivBegin \/ DivTrial \/ DivDigit \/ DivEnd
    \/ GcdCall \/ GcdStep \/ GcdReturn

SpecL == InitL /\ [][NextL]_vars
\* a step of NextL is enabled, and changes the state, exactly when the
\* function has not returned
Running == lpc \notin {"done", "idle"}
\* The code is sequential: a function that can take a step takes it.  This is
\* WF_vars(NextL) with ENABLED <<NextL>>_vars written out as Running.
FairSpecL == SpecL /\ ([]<>~Running \/ []<><<NextL>>_vars)

\* ------------------------------------------- SharedPtr and WeakPtr
\* the most SharedPtr objects, and the most WeakPtr objects, of a run
MaxPtrs == 2
PtrSlots == 1..MaxPtrs

\* --x on a size_t: below zero it wraps to 2^64 - 1, which -1 stands for
decrement(c) == IF c = 0 THEN -1 ELSE c - 1
\* ControlBlockDirect(ptr, deleter, alloc) and ControlBlockMakeShared(alloc,
\* args...): BaseControlBlock(1, 0).  live: ptr is not nullptr, or obj has not
\* been destroyed; destroyed: the times the object has been destroyed;
\* deallocated: the times the storage of the block has been given back;
\* stale: a member of the block was used after that
ControlBlock(kind) ==
    [kind |-> kind, shared_count |-> 1, weak_count |-> 0, live |-> TRUE,
     destroyed |-> 0, deallocated |-> 0, stale |-> FALSE]
\* a use of a member of the block through control_block_
through(cb) == IF cb.deallocated > 0 THEN [cb EXCEPT !.stale = TRUE] ELSE cb
\* destroy(): ControlBlockDirect calls the deleter if ptr is not nullptr and
\* sets ptr to nullptr, ControlBlockMakeShared destroys obj
destroy(cb) ==
    IF cb.kind = "direct" /\ ~cb.live THEN through(cb)
    ELSE [through(cb) EXCEPT !.live = FALSE, !.destroyed = @ + 1]
\* deallocate()
deallocate(cb) == [through(cb) EXCEPT !.deallocated = @ + 1]

\* SharedPtr(BaseControlBlock*) and WeakPtr(BaseControlBlock*): the count of
\* a block that is not nullptr is incremented
shared_from(cb, p) ==
    IF p = "block" THEN [through(cb) EXCEPT !.shared_count = @ + 1] ELSE cb
weak_from(cb, p) ==
    IF p = "block" THEN [through(cb) EXCEPT !.weak_count = @ + 1] ELSE cb
\* ~SharedPtr() of an object that holds p
shared_release(cb) ==
    IF cb.shared_count = 0 /\ cb.weak_count = 0 THEN deallocate(destroy(cb))
    ELSE IF cb.shared_count = 0 THEN destroy(cb)
    ELSE cb
shared_dtor(cb, p) ==
    IF p # "block" THEN cb
    ELSE shared_release([through(cb) EXCEPT !.shared_count = decrement(@)])
\* ~WeakPtr() of an object that holds p
weak_release(cb) ==
    IF cb.shared_count = 0 /\ cb.weak_count = 0 THEN deallocate(cb) ELSE cb
weak_dtor(cb, p) ==
    IF p # "block" THEN cb
    ELSE weak_release([through(cb) EXCEPT !.weak_count = decrement(@)])
\* mutant: lock() without the test of expired()
lock_unchecked(cb) ==
    [cb |-> shared_from(cb, "block"), expired |-> cb.shared_count = 0,
     returned |-> "block"]
\* lock() of a WeakPtr that holds the block: if (expired()) return
\* SharedPtr<T>(); return SharedPtr<T>(control_block_);
lock(cb) ==
    IF through(cb).shared_count = 0
    THEN [cb |-> through(cb), expired |-> TRUE, returned |-> "null"]
    ELSE [cb |-> shared_from(cb, "block"), expired |-> FALSE,
          returned |-> "block"]

\* SharedPtr<T> a(new T) or a = makeShared<T>(): one SharedPtr holds the block
InitP ==
    /\ BigIdle
    /\ RatIdle
    /\ ValIdle
    /\ ModIdle
    /\ MatIdle
    /\ StepIdle
    /\ ListIdle
    /\ MapIdle
    /\ pcb \in {ControlBlock("direct"), ControlBlock("make_shared")}
    /\ psh = [i \in PtrSlots |-> IF i = 1 THEN "block" ELSE "none"]
    /\ pwk = [i \in PtrSlots |-> "none"]
    /\ pop = "ctor"
    /\ plock = "none"

\* SharedPtr<T> j; and WeakPtr<T> j;
SharedDefault ==
    /\ pop \notin {"idle", "fault"}
    /\ \E j \in PtrSlots :
          /\ psh[j] = "none"
          /\ psh' = [psh EXCEPT ![j] = "null"]
    /\ pop' = "SharedPtr()"
    /\ UNCHANGED <<pcb, pwk, plock>>
    /\ UNCHANGED notPtr
WeakDefault ==
    /\ pop \notin {"idle", "fault"}
    /\ \E j \in PtrSlots :
          /\ pwk[j] = "none"
          /\ pwk' = [pwk EXCEPT ![j] = "null"]
    /\ pop' = "WeakPtr()"
    /\ UNCHANGED <<pcb, psh, plock>>
    /\ UNCHANGED notPtr

\* SharedPtr<T> j(i)
SharedCopy ==
    /\ pop \notin {"idle", "fault"}
    /\ \E i \in PtrSlots, j \in PtrSlots :
          /\ psh[i] # "none" /\ psh[j] = "none"
          /\ pcb' = shared_from(pcb, psh[i])
          /\ psh' = [psh EXCEPT ![j] = psh[i]]
    /\ pop' = "SharedPtr(const SharedPtr&)"
    /\ UNCHANGED <<pwk, plock>>
    /\ UNCHANGED notPtr

\* SharedPtr<T> j(std::move(i))
SharedMove ==
    /\ pop \notin {"idle", "fault"}
    /\ \E i \in PtrSlots, j \in PtrSlots :
          /\ psh[i] # "none" /\ psh[j] = "none"
          /\ psh' = [psh EXCEPT ![j] = psh[i], ![i] = "null"]
    /\ pop' = "SharedPtr(SharedPtr&&)"
    /\ UNCHANGED <<pcb, pwk, plock>>
    /\ UNCHANGED notPtr

\* j = i: SharedPtr tmp = other; swap(tmp); and tmp is destroyed with what j
\* held
SharedAssign ==
    /\ pop \notin {"idle", "fault"}
    /\ \E i \in PtrSlots, j \in PtrSlots :
          /\ psh[i] # "none" /\ psh[j] # "none"
          /\ pcb' = shared_dtor(shared_from(pcb, psh[i]), psh[j])
          /\ psh' = [psh EXCEPT ![j] = psh[i]]
    /\ pop' = "SharedPtr = const SharedPtr&"
    /\ UNCHANGED <<pwk, plock>>
    /\ UNCHANGED notPtr

\* j = std::move(i): auto tmp = std::move(other); swap(tmp); for i = j the
\* swap gives the block back to the object
SharedMoveAssign ==
    /\ pop \notin {"idle", "fault"}
    /\ \E i \in PtrSlots, j \in PtrSlots :
          /\ psh[i] # "none" /\ psh[j] # "none"
          /\ IF i = j
             THEN UNCHANGED <<pcb, psh>>
             ELSE /\ pcb' = shared_dtor(pcb, psh[j])
                  /\ psh' = [psh EXCEPT ![j] = psh[i], ![i] = "null"]
    /\ pop' = "SharedPtr = SharedPtr&&"
    /\ UNCHANGED <<pwk, plock>>
    /\ UNCHANGED notPtr

\* i.reset(): *this = SharedPtr<T>()
SharedReset ==
    /\ pop \notin {"idle", "fault"}
    /\ \E i \in PtrSlots :
          /\ psh[i] # "none"
          /\ pcb' = shared_dtor(pcb, psh[i])
          /\ psh' = [psh EXCEPT ![i] = "null"]
    /\ pop' = "reset"
    /\ UNCHANGED <<pwk, plock>>
    /\ UNCHANGED notPtr

\* the end of the life of i
SharedDtor ==
    /\ pop \notin {"idle", "fault"}
    /\ \E i \in PtrSlots :
          /\ psh[i] # "none"
          /\ pcb' = shared_dtor(pcb, psh[i])
          /\ psh' = [psh EXCEPT ![i] = "none"]
    /\ pop' = "~SharedPtr"
    /\ UNCHANGED <<pwk, plock>>
    /\ UNCHANGED notPtr

\* WeakPtr<T> j(i) for a SharedPtr i
WeakFromShared ==
    /\ pop \notin {"idle", "fault"}
    /\ \E i \in PtrSlots, j \in PtrSlots :
          /\ psh[i] # "none" /\ pwk[j] = "none"
          /\ pcb' = weak_from(pcb, psh[i])
          /\ pwk' = [pwk EXCEPT ![j] = psh[i]]
    /\ pop' = "WeakPtr(const SharedPtr&)"
    /\ UNCHANGED <<psh, plock>>
    /\ UNCHANGED notPtr

\* WeakPtr<T> j(i)
WeakCopy ==
    /\ pop \notin {"idle", "fault"}
    /\ \E i \in PtrSlots, j \in PtrSlots :
          /\ pwk[i] # "none" /\ pwk[j] = "none"
          /\ pcb' = weak_from(pcb, pwk[i])
          /\ pwk' = [pwk EXCEPT ![j] = pwk[i]]
    /\ pop' = "WeakPtr(const WeakPtr&)"
    /\ UNCHANGED <<psh, plock>>
    /\ UNCHANGED notPtr

\* WeakPtr<T> j(std::move(i))
WeakMove ==
    /\ pop \notin {"idle", "fault"}
    /\ \E i \in PtrSlots, j \in PtrSlots :
          /\ pwk[i] # "none" /\ pwk[j] = "none"
          /\ pwk' = [pwk EXCEPT ![j] = pwk[i], ![i] = "null"]
    /\ pop' = "WeakPtr(WeakPtr&&)"
    /\ UNCHANGED <<pcb, psh, plock>>
    /\ UNCHANGED notPtr

\* j = i for WeakPtr
WeakAssign ==
    /\ pop \notin {"idle", "fault"}
    /\ \E i \in PtrSlots, j \in PtrSlots :
          /\ pwk[i] # "none" /\ pwk[j] # "none"
          /\ pcb' = weak_dtor(weak_from(pcb, pwk[i]), pwk[j])
          /\ pwk' = [pwk EXCEPT ![j] = pwk[i]]
    /\ pop' = "WeakPtr = const WeakPtr&"
    /\ UNCHANGED <<psh, plock>>
    /\ UNCHANGED notPtr

\* j = std::move(i) for WeakPtr
WeakMoveAssign ==
    /\ pop \notin {"idle", "fault"}
    /\ \E i \in PtrSlots, j \in PtrSlots :
          /\ pwk[i] # "none" /\ pwk[j] # "none"
          /\ IF i = j
             THEN UNCHANGED <<pcb, pwk>>
             ELSE /\ pcb' = weak_dtor(pcb, pwk[j])
                  /\ pwk' = [pwk EXCEPT ![j] = pwk[i], ![i] = "null"]
    /\ pop' = "WeakPtr = WeakPtr&&"
    /\ UNCHANGED <<psh, plock>>
    /\ UNCHANGED notPtr

\* the end of the life of the WeakPtr i
WeakDtor ==
    /\ pop \notin {"idle", "fault"}
    /\ \E i \in PtrSlots :
          /\ pwk[i] # "none"
          /\ pcb' = weak_dtor(pcb, pwk[i])
          /\ pwk' = [pwk EXCEPT ![i] = "none"]
    /\ pop' = "~WeakPtr"
    /\ UNCHANGED <<psh, plock>>
    /\ UNCHANGED notPtr

\* SharedPtr<T> j = i.lock() for a WeakPtr i that holds the block
WeakLock ==
    /\ pop \notin {"idle", "fault"}
    /\ \E i \in PtrSlots, j \in PtrSlots :
          /\ pwk[i] = "block" /\ psh[j] = "none"
          /\ \E run \in {lock(pcb)} :
                /\ pcb' = run.cb
                /\ psh' = [psh EXCEPT ![j] = run.returned]
                /\ plock' = [expired |-> run.expired, into |-> j]
    /\ pop' = "lock"
    /\ UNCHANGED pwk
    /\ UNCHANGED notPtr

\* i.lock() for a WeakPtr i whose control_block_ is nullptr (constructed by
\* WeakPtr() or moved from): expired() reads control_block_->shared_count
\* through the null pointer, and the run ends there
WeakLockNull ==
    /\ pop \notin {"idle", "fault"}
    /\ \E i \in PtrSlots : pwk[i] = "null"
    /\ pop' = "fault"
    /\ UNCHANGED <<pcb, psh, pwk, plock>>
    /\ UNCHANGED notPtr

NextP ==
    \/ SharedDefault \/ WeakDefault \/ SharedCopy \/ SharedMove
    \/ SharedAssign \/ SharedMoveAssign \/ SharedReset \/ SharedDtor
    \/ WeakFromShared \/ WeakCopy \/ WeakMove \/ WeakAssign
    \/ WeakMoveAssign \/ WeakDtor \/ WeakLock \/ WeakLockNull

SpecP == InitP /\ [][NextP]_vars

\* ------------------------------------------------------------ List
\* the most elements of a List that push_back builds
MaxLen == 2
ListValues == {1, 2}
\* the List objects: a and b, new_list of operator=, list_copy of swap; each
\* stands for its end_ as well
Lists == {"a", "b", "new_list", "list_copy"}
\* the nodes that the allocator can give, in the order it gives them
NodeNames ==
    <<"n1", "n2", "n3", "n4", "n5", "n6", "n7", "n8", "n9", "n10", "n11",
      "n12">>
NodeIds == {NodeNames[k] : k \in 1..(3 * MaxLen)}

\* all objects constructed and empty: BaseNode() links a node to itself
NoNodes ==
    [next |-> [x \in Lists \cup NodeIds |-> x],
     prev |-> [x \in Lists \cup NodeIds |-> x],
     value |-> [x \in NodeIds |-> 0],
     size |-> [l \in Lists |-> 0],
     nodes |-> {},
     ended |-> {"new_list", "list_copy"},
     bad_free |-> FALSE]

\* construct_node: a node from the allocator, linked to itself
construct_node(h, v) ==
    LET free(k) == NodeNames[k] \in DOMAIN h.value /\ NodeNames[k] \notin h.nodes
        k == CHOOSE k \in 1..Len(NodeNames) :
                 free(k) /\ \A j \in 1..(k - 1) : ~free(j)
        i == NodeNames[k]
    IN [node |-> i,
        heap |-> [h EXCEPT !.nodes = @ \cup {i}, !.value[i] = v,
                           !.next[i] = i, !.prev[i] = i]]
\* NodeAllocTraits::deallocate: of an end_, which no allocator gave, it is
\* a free of memory that was not allocated.  What a node held is of no
\* account once it is back with the allocator
deallocate_node(h, node) ==
    IF node \in h.nodes
    THEN [h EXCEPT !.nodes = @ \ {node}, !.next[node] = node,
                   !.prev[node] = node, !.value[node] = 0]
    ELSE [h EXCEPT !.bad_free = TRUE]

\* List/list.cpp: insert_node_before(node, node_before)
list_insert_node_before(h, node, node_before) ==
    LET h1 == [h EXCEPT !.next[node_before] = node]
        h2 == [h1 EXCEPT !.prev[node_before] = h1.prev[node]]
        h3 == [h2 EXCEPT !.next[h2.prev[node]] = node_before]
    IN [h3 EXCEPT !.prev[node] = node_before]
\* List/list.cpp: delete_node(node)
list_delete_node(h, node) ==
    LET h1 == [h EXCEPT !.next[h.prev[node]] = h.next[node]]
        h2 == [h1 EXCEPT !.prev[h1.next[node]] = h1.prev[node]]
    IN deallocate_node(h2, node)
\* UnorderedMap/list.cpp: link_nodes(left, right)
link_nodes(h, left, right) ==
    LET h1 == [h EXCEPT !.next[left] = right]
    IN [h1 EXCEPT !.prev[right] = left]
\* UnorderedMap/list.cpp: insert_node_before(node, node_before)
insert_node_before(h, node, node_before) ==
    link_nodes(link_nodes(h, h.prev[node], node_before), node_before, node)
\* UnorderedMap/list.cpp: delete_node(node)
delete_node(h, node) ==
    deallocate_node(link_nodes(h, h.prev[node], h.next[node]), node)

\* create_node_before(node, args...) of the source src
create_node_before(src, h, node, v) ==
    LET made == construct_node(h, v)
    IN IF src = "List"
       THEN list_insert_node_before(made.heap, node, made.node)
       ELSE insert_node_before(made.heap, node, made.node)
\* insert(it, value) and emplace(it, args...): the node and size_++
insert(src, h, l, node, v) ==
    [create_node_before(src, h, node, v) EXCEPT !.size[l] = @ + 1]
\* push_back(value): insert(end(), value)
push_back(src, h, l, v) == insert(src, h, l, l, v)
\* erase(it): delete_node and size_--
erase(src, h, l, node) ==
    [(IF src = "List" THEN list_delete_node(h, node) ELSE delete_node(h, node))
        EXCEPT !.size[l] = decrement(@)]
\* pop_back(): erase(--end())
pop_back(src, h, l) == erase(src, h, l, h.prev[l])
\* clear(): size_ times pop_back()
RECURSIVE clear_loop(_, _, _, _)
clear_loop(src, h, l, i) ==
    IF i = 0 THEN h ELSE clear_loop(src, pop_back(src, h, l), l, i - 1)
clear(src, h, l) == clear_loop(src, h, l, h.size[l])
\* List(const Allocator&): end_ linked to itself, size_ 0
ListCtor(h, l) ==
    [h EXCEPT !.next[l] = l, !.prev[l] = l, !.size[l] = 0,
              !.ended = @ \ {l}]
\* ~List(): clear(), and the life of end_ and size_ is over
ListDtor(src, h, l) ==
    [clear(src, h, l) EXCEPT !.ended = @ \cup {l}, !.next[l] = l,
                             !.prev[l] = l, !.size[l] = 0]
\* List(const List& other_list): push_back(*it) from begin() to end()
RECURSIVE copy_loop(_, _, _, _, _)
copy_loop(src, h, l, other, it) ==
    IF it = other THEN h
    ELSE copy_loop(src, push_back(src, h, l, h.value[it]), l, other,
                   h.next[it])
ListCopyCtor(src, h, l, other) ==
    copy_loop(src, ListCtor(h, l), l, other, h.next[other])

\* rebuild_end(first_end, second_end)
rebuild_end(h, first_end, second_end) ==
    LET h1 == [h EXCEPT !.prev[h.next[first_end]] = second_end]
    IN [h1 EXCEPT !.next[h1.prev[first_end]] = second_end]
\* List/list.cpp: swap(BaseNode*, BaseNode*)
swap_nodes(h, first_node, second_node) ==
    [h EXCEPT !.next[first_node] = h.next[second_node],
              !.next[second_node] = h.next[first_node],
              !.prev[first_node] = h.prev[second_node],
              !.prev[second_node] = h.prev[first_node]]
\* std::swap(first_list.size_, second_list.size_)
swap_sizes(h, first_list, second_list) ==
    [h EXCEPT !.size[first_list] = h.size[second_list],
              !.size[second_list] = h.size[first_list]]
\* List/list.cpp: swap(List&, List&)
list_swap(h, first_list, second_list) ==
    swap_sizes(swap_nodes(rebuild_end(rebuild_end(h, first_list, second_list),
                                      second_list, first_list),
                          second_list, first_list),
               first_list, second_list)
\* List/list.cpp: operator=(const List&)
list_copy_assign(h, this, other_list) ==
    ListDtor("List",
             list_swap(ListCopyCtor("List", h, "new_list", other_list),
                       this, "new_list"),
             "new_list")

\* UnorderedMap/list.cpp: BaseNode::operator=(BaseNode&& other)
node_move_assign(h, this, other) ==
    LET h1 == [h EXCEPT !.next[this] = h.next[other]]
        h2 == [h1 EXCEPT !.prev[this] = h1.prev[other]]
        h3 == [h2 EXCEPT !.prev[h2.next[this]] = this]
        h4 == [h3 EXCEPT !.next[h3.prev[this]] = this]
        h5 == [h4 EXCEPT !.prev[other] = other]
    IN [h5 EXCEPT !.next[other] = other]
\* size_ = other_list.size_ and other_list.size_ = 0
take_size(h, this, other_list) ==
    [h EXCEPT !.size[this] = h.size[other_list], !.size[other_list] = 0]
\* UnorderedMap/list.cpp: List(List&& other_list)
ListMoveCtor(h, this, other_list) ==
    node_move_assign(take_size(ListCtor(h, this), this, other_list),
                     this, other_list)
\* UnorderedMap/list.cpp: operator=(List&& other_list)
move_assign(h, this, other_list) ==
    take_size(node_move_assign(clear("UnorderedMap", h, this),
                               this, other_list),
              this, other_list)
\* UnorderedMap/list.cpp: swap(List&, List&)
swap(h, first_list, second_list) ==
    ListDtor("UnorderedMap",
             move_assign(move_assign(ListMoveCtor(h, "list_copy",
                                                  second_list),
                                     second_list, first_list),
                         first_list, "list_copy"),
             "list_copy")
\* UnorderedMap/list.cpp: operator=(const List&)
copy_assign(h, this, other_list) ==
    ListDtor("UnorderedMap",
             swap(ListCopyCtor("UnorderedMap", h, "new_list", other_list),
                  this, "new_list"),
             "new_list")

\* rbegin() and rend(): both reverse_iterator(&end_); base is the iterator a
\* reverse_iterator holds
rbegin(l) == [base |-> l]
rend(l) == [base |-> l]
\* for (it = rbegin(); it != rend(); ++it) visit(*it): *it is *--base,
\* ++it is --base
RECURSIVE reverse_loop(_, _, _)
reverse_loop(h, it, last) ==
    IF it.base = last.base THEN <<>>
    ELSE <<h.value[h.prev[it.base]]>>
             \o reverse_loop(h, [base |-> h.prev[it.base]], last)
reverse_visit(h, l) == reverse_loop(h, rbegin(l), rend(l))

\* the elements of l from begin() to end(), for a list whose nodes lead back
\* to its end_
RECURSIVE forward_loop(_, _, _)
forward_loop(h, l, it) ==
    IF it = l THEN <<>>
    ELSE <<h.value[it]>> \o forward_loop(h, l, h.next[it])
elements(h, l) == forward_loop(h, l, h.next[l])
\* a link of a or b, or of a node, leads to an object whose life is over
dangling(h) ==
    \E x \in {"a", "b"} \cup h.nodes :
        \/ h.next[x] \in h.ended \cup (NodeIds \ h.nodes)
        \/ h.prev[x] \in h.ended \cup (NodeIds \ h.nodes)
\* the elements of a and b before an operation of this with other
before(h, this, other) ==
    [a |-> elements(h, "a"), b |-> elements(h, "b"), this |-> this,
     other |-> other]
\* a and b are being built: no assignment has been made
Usable == qop \notin {"idle", "aborted", "="} /\ ~dangling(qheap)

\* List<int> a, b; from List/list.cpp or from UnorderedMap/list.cpp
InitQ ==
    /\ BigIdle
    /\ RatIdle
    /\ ValIdle
    /\ ModIdle
    /\ MatIdle
    /\ StepIdle
    /\ PtrIdle
    /\ MapIdle
    /\ qsrc \in {"List", "UnorderedMap"}
    /\ qheap = NoNodes
    /\ qop = "ctor"
    /\ qold = before(NoNodes, "none", "none")
    /\ qvisit = "none"

\* l.push_back(v)
QPushBack ==
    /\ Usable
    /\ \E l \in {"a", "b"}, v \in ListValues :
          /\ qheap.size[l] < MaxLen
          /\ qold' = before(qheap, l, "none")
          /\ qheap' = push_back(qsrc, qheap, l, v)
          /\ qop' = "push_back"
    /\ qvisit' = "none"
    /\ UNCHANGED qsrc
    /\ UNCHANGED notList

\* l.pop_back() of a list that is not empty
QPopBack ==
    /\ Usable
    /\ \E l \in {"a", "b"} :
          /\ qheap.size[l] > 0
          /\ qold' = before(qheap, l, "none")
          /\ qheap' = pop_back(qsrc, qheap, l)
          /\ qop' = "pop_back"
    /\ qvisit' = "none"
    /\ UNCHANGED qsrc
    /\ UNCHANGED notList

\* this = other, the last statement of the run: operator=(const List&) with
\* its new_list from construction to destruction.  A free of memory that was not allocated is undefined:
\* the run is ended there, or it goes on
QCopyAssign ==
    /\ Usable
    /\ \E this \in {"a", "b"}, other \in {"a", "b"} :
          /\ qold' = before(qheap, this, other)
          /\ \E run \in {IF qsrc = "List"
                         THEN list_copy_assign(qheap, this, other)
                         ELSE copy_assign(qheap, this, other)} :
                /\ qheap' = run
                /\ qop' \in IF run.bad_free THEN {"aborted", "="} ELSE {"="}
    /\ qvisit' = "none"
    /\ UNCHANGED qsrc
    /\ UNCHANGED notList

\* for (auto it = l.rbegin(); it != l.rend(); ++it) visit(*it)
QReverse ==
    /\ Usable
    /\ \E l \in {"a", "b"} :
          /\ qvisit' = [list |-> l, visited |-> reverse_visit(qheap, l),
                        equal |-> rbegin(l) = rend(l)]
          /\ qop' = "reverse"
    /\ UNCHANGED <<qsrc, qheap, qold>>
    /\ UNCHANGED notList

NextQ == QPushBack \/ QPopBack \/ QCopyAssign \/ QReverse

SpecQ == InitQ /\ [][NextQ]_vars

\* ---------------------------------------------------- UnorderedMap
\* the keys of a run are 0..MaxKey
MaxKey == 2
Keys == 0..MaxKey
\* the most buckets that a call of rehash asks for
MaxBuckets == 3
\* the nodes that the allocator can give to list_: one for each key and the
\* one that emplace appends before it looks for the key
MapNodeIds == {NodeNames[k] : k \in 1..(MaxKey + 2)}

\* UnorderedMap(Alloc): buckets_cnt_(1), buckets_(1, nullptr), list_
NewMap ==
    [buckets_cnt_ |-> 1,
     buckets_ |-> <<"nullptr">>,
     list_ |-> [next |-> [x \in {"list_"} \cup MapNodeIds |-> x],
                prev |-> [x \in {"list_"} \cup MapNodeIds |-> x],
                value |-> [x \in MapNodeIds |-> 0],
                size |-> [l \in {"list_"} |-> 0],
                nodes |-> {},
                ended |-> {},
                bad_free |-> FALSE]]

\* get_hash(key) with Hash = std::hash<int>, which returns the key
get_hash(key) == key
\* get_hash_id(key_hash)
get_hash_id(m, key_hash) == key_hash % Len(m.buckets_)
\* the key_hash_ of the node that it refers to, as get_hash_id takes it
hash_id_at(m, it) == get_hash_id(m, get_hash(m.list_.value[it]))
\* buckets_[key_id], counted from 0
bucket(m, key_id) == m.buckets_[key_id + 1]
\* get_bucket_start(key_id); list_.end() is the end_ of list_
get_bucket_start(m, key_id) ==
    IF bucket(m, key_id) # "nullptr" THEN bucket(m, key_id) ELSE "list_"
\* list_.link_iterators(it1, it2)
link_iterators(h, it1, it2) ==
    LET h1 == link_nodes(h, h.prev[it2], h.next[it2])
    IN insert_node_before(h1, h1.next[it1], it2)

\* the body of the loop of rehash for the node it2
rehash_node(m, it2) ==
    LET key_id == hash_id_at(m, it2)
        m1 == [m EXCEPT !.list_ =
                  link_iterators(@, get_bucket_start(m, key_id), it2)]
    IN IF get_bucket_start(m1, key_id) = "list_"
       THEN [m1 EXCEPT !.buckets_cnt_ = @ + 1, !.buckets_[key_id + 1] = it2]
       ELSE m1
RECURSIVE rehash_loop(_, _)
rehash_loop(m, it) ==
    IF it = "list_" THEN m
    ELSE rehash_loop(rehash_node(m, it), m.list_.next[it])
\* rehash(new_sz)
rehash(m, new_sz) ==
    rehash_loop([m EXCEPT !.buckets_ = [i \in 1..new_sz |-> "nullptr"],
                          !.buckets_cnt_ = 0],
                m.list_.next["list_"])
\* std::ceil(static_cast<double>(reserved_sz) / max_load_factor()) with
\* max_load_factor_ = 0.8
buckets_for(reserved_sz) == (5 * reserved_sz + 3) \div 4
\* reserve(reserved_sz)
reserve(m, reserved_sz) == rehash(m, buckets_for(reserved_sz))
\* load_factor() > max_load_factor(): bucket_count() * 1.0 / buckets_.size()
\* against 0.8
overloaded(m) == 5 * m.buckets_cnt_ > 4 * Len(m.buckets_)

\* find(key) reads the node that buckets_[key_id] refers to: the node is not
\* one that list_ holds
find_reads_freed(m, key) ==
    get_bucket_start(m, get_hash_id(m, get_hash(key)))
        \notin {"list_"} \cup m.list_.nodes
RECURSIVE find_loop(_, _, _, _)
find_loop(m, key, key_id, it) ==
    IF it = "list_" THEN "list_"
    ELSE IF hash_id_at(m, it) # key_id THEN "list_"
    ELSE IF m.list_.value[it] = key THEN it
    ELSE find_loop(m, key, key_id, m.list_.next[it])
\* find(key); end() is the end_ of list_
find(m, key) ==
    find_loop(m, key, get_hash_id(m, get_hash(key)),
              get_bucket_start(m, get_hash_id(m, get_hash(key))))

\* emplace(args...) to the call of find: the reserve and list_.emplace
emplace_appended(m, key) ==
    [(IF overloaded(m) THEN reserve(m, 2 * Len(m.buckets_)) ELSE m)
        EXCEPT !.list_ = insert("UnorderedMap", @, "list_", "list_", key)]
\* emplace(args...) from the return of find, for the map with the node
\* appended
emplace_placed(m, it) ==
    LET iter == m.list_.prev["list_"]
        key_id == hash_id_at(m, iter)
        start == get_bucket_start(m, key_id)
    IN IF it # "list_" /\ it # iter
       THEN [map |-> [m EXCEPT !.list_ = pop_back("UnorderedMap", @, "list_")],
             first |-> it, second |-> FALSE]
       ELSE [map |-> [m EXCEPT
                        !.buckets_cnt_ = IF start = "list_" THEN @ + 1 ELSE @,
                        !.list_ = link_iterators(@, @.prev[start], iter),
                        !.buckets_[key_id + 1] = iter],
             first |-> iter, second |-> TRUE]
\* emplace(args...)
emplace(m, key) ==
    emplace_placed(emplace_appended(m, key),
                   find(emplace_appended(m, key), key))
\* erase(it)
map_erase(m, it) ==
    LET key_id == hash_id_at(m, it)
        after == m.list_.next[it]
        m1 == [m EXCEPT !.list_ = erase("UnorderedMap", @, "list_", it)]
    IN IF it # get_bucket_start(m, key_id) THEN m1
       ELSE IF after # "list_" /\ key_id = hash_id_at(m1, after)
       THEN [m1 EXCEPT !.buckets_[key_id + 1] = after]
       ELSE [m1 EXCEPT !.buckets_[key_id + 1] = "nullptr",
                       !.buckets_cnt_ = decrement(@)]
\* clear(): list_.clear()
map_clear(m) == [m EXCEPT !.list_ = clear("UnorderedMap", @, "list_")]

\* UnorderedMap<int, int> m;
InitU ==
    /\ BigIdle
    /\ RatIdle
    /\ ValIdle
    /\ ModIdle
    /\ MatIdle
    /\ StepIdle
    /\ PtrIdle
    /\ ListIdle
    /\ umap = NewMap
    /\ uop = "ctor"
    /\ uret = [first |-> "none", second |-> FALSE]

\* the run has not been ended
Going == uop \notin {"idle", "aborted", "corrupted"}

\* m.find(key).  The read of a node that has been deallocated is undefined:
\* the run is ended there, or the read meets another hash and find returns
\* end()
UFind ==
    /\ Going
    /\ \E key \in Keys :
          IF find_reads_freed(umap, key)
          THEN /\ uop' \in {"aborted", "find"}
               /\ uret' = [first |-> "list_", second |-> FALSE]
          ELSE /\ uop' = "find"
               /\ uret' = [first |-> find(umap, key), second |-> FALSE]
    /\ UNCHANGED umap
    /\ UNCHANGED notMap

\* m.insert({key, value}) and m.emplace(key, value).  After a read of a
\* deallocated node by find, --get_bucket_start reads its prev_ and
\* link_iterators writes through what it read: the run is ended, or the
\* memory of the program is no longer what the map describes
UEmplace ==
    /\ Going
    /\ \E key \in Keys :
          \E appended \in {emplace_appended(umap, key)} :
             IF find_reads_freed(appended, key)
             THEN /\ uop' \in {"aborted", "corrupted"}
                  /\ umap' = appended
                  /\ uret' = [first |-> "none", second |-> FALSE]
             ELSE \E run \in {emplace_placed(appended, find(appended, key))} :
                     /\ uop' = "emplace"
                     /\ umap' = run.map
                     /\ uret' = [first |-> run.first, second |-> run.second]
    /\ UNCHANGED notMap

\* m[key]: find(key), and emplace(key, Value()) if it returns end()
UIndex ==
    /\ Going
    /\ \E key \in Keys :
          IF find_reads_freed(umap, key)
          THEN /\ uop' \in {"aborted", "corrupted"}
               /\ umap' = umap
               /\ uret' = [first |-> "none", second |-> FALSE]
          ELSE IF find(umap, key) # "list_"
          THEN /\ uop' = "operator[]"
               /\ umap' = umap
               /\ uret' = [first |-> find(umap, key), second |-> FALSE]
          ELSE \E appended \in {emplace_appended(umap, key)} :
                  IF find_reads_freed(appended, key)
                  THEN /\ uop' \in {"aborted", "corrupted"}
                       /\ umap' = appended
                       /\ uret' = [first |-> "none", second |-> FALSE]
                  ELSE \E run \in {emplace_placed(appended,
                                                  find(appended, key))} :
                          /\ uop' = "operator[]"
                          /\ umap' = run.map
                          /\ uret' = [first |-> run.first, second |-> FALSE]
    /\ UNCHANGED notMap

\* m.erase(m.find(key)) for a key that find finds
UErase ==
    /\ Going
    /\ \E key \in Keys :
          /\ ~find_reads_freed(umap, key)
          /\ find(umap, key) # "list_"
          /\ umap' = map_erase(umap, find(umap, key))
          /\ uret' = [first |-> find(umap, key), second |-> TRUE]
    /\ uop' = "erase"
    /\ UNCHANGED notMap

\* m.rehash(new_sz)
URehash ==
    /\ Going
    /\ \E new_sz \in 1..MaxBuckets : umap' = rehash(umap, new_sz)
    /\ uop' = "rehash"
    /\ uret' = [first |-> "none", second |-> FALSE]
    /\ UNCHANGED notMap

\* m.reserve(reserved_sz)
UReserve ==
    /\ Going
    /\ \E reserved_sz \in 1..MaxBuckets : umap' = reserve(umap, reserved_sz)
    /\ uop' = "reserve"
    /\ uret' = [first |-> "none", second |-> FALSE]
    /\ UNCHANGED notMap

\* m.clear()
UClear ==
    /\ Going
    /\ umap' = map_clear(umap)
    /\ uop' = "clear"
    /\ uret' = [first |-> "none", second |-> FALSE]
    /\ UNCHANGED notMap

NextU ==
    UFind \/ UEmplace \/ UIndex \/ UErase \/ URehash \/ UReserve \/ UClear

SpecU == InitU /\ [][NextU]_vars

\* ------------------------------------------------- what the claims speak of
\* invariant I1: a non-empty vector of groups in [0, base), no zero group on
\* top of another group
I1(x) ==
    /\ Len(x.a) >= 1
    /\ \A i \in 1..Len(x.a) : x.a[i] \in 0..(base - 1)
    /\ Len(x.a) > 1 => x.a[Len(x.a)] # 0
AllZero(x) == \A i \in 1..Len(x.a) : x.a[i] = 0
\* invariant I2: zero is positive
I2(x) == AllZero(x) => x.sign = plus
Canonical(x) == I1(x) /\ I2(x) /\ x.sign \in {plus, minus}

\* the integer a BigInteger of at most four groups stands for
RECURSIVE MagValue(_, _)
MagValue(v, i) == IF i > Len(v) THEN 0 ELSE v[i] + base * MagValue(v, i + 1)
Value(x) == x.sign * MagValue(x.a, 1)
Abs(k) == IF k < 0 THEN -k ELSE k
\* the quotient of the integers, rounded toward zero
TruncDiv(k, m) ==
    (IF (k < 0) = (m < 0) THEN 1 ELSE -1) * (Abs(k) \div Abs(m))

\* the magnitude modulo p, by Horner's rule from the top group down
RECURSIVE MagMod(_, _, _)
MagMod(v, i, p) ==
    IF i > Len(v) THEN 0
    ELSE (v[i] + base * MagMod(v, i + 1, p)) % p
\* five primes below 46340, so that no product of residues overflows; their
\* product exceeds 2 * 10^23, so two magnitudes below 100^10 with the same
\* residues are equal
Moduli == {46337, 46327, 46309, 46307, 46301}

\* --------------------------------------------------------------- claims

\* C1: for canonical a and b with b != 0, (a / b) * b + (a % b) == a and
\* |a % b| < |b|: checked where res holds a % b.
C1_DivModIdentity ==
    (op = "%" /\ ~is_zero(rhs)) =>
        /\ Equal(PlusAssign(MulAssign(DivAssign(lhs, rhs), rhs), res), lhs)
        /\ less_abs(res, rhs)
\* a negative two-group dividend leaves a nonzero remainder
C1_Witness ==
    /\ op = "%" /\ ~is_zero(rhs)
    /\ lhs.sign = minus /\ size(lhs) = 2 /\ size(rhs) = 2
    /\ ~is_zero(res)

\* C2: division truncates toward zero for every sign combination: the
\* quotient is sign(a)*sign(b)*floor(|a| / |b|), and the remainder is
\* a - b * (a / b), with the sign of the dividend when it is not zero.
C2_TruncatingDivision ==
    /\ (op = "/" /\ ~is_zero(rhs)) =>
           /\ Canonical(res)
           /\ Value(res) = TruncDiv(Value(lhs), Value(rhs))
    /\ (op = "%" /\ ~is_zero(rhs)) =>
           /\ Canonical(res)
           /\ Value(res) =
                  Value(lhs) - Value(rhs) * TruncDiv(Value(lhs), Value(rhs))
           /\ ~is_zero(res) => res.sign = lhs.sign
\* -7 / 2 == -3
C2_Witness ==
    /\ op = "/"
    /\ lhs = BigInt(<<7>>, minus) /\ rhs = BigInt(<<2>>, plus)
    /\ res = BigInt(<<3>>, minus)

\* C3: division or modulo by a zero divisor signals DivisionByZero and
\* never completes normally with a numeric result.
C3_DivisionByZeroSignalled ==
    (op \in {"/", "%"} /\ is_zero(rhs)) => err = "DivisionByZero"

\* C4: a * b is the exact product of the magnitudes in canonical groups
\* (equal residues modulo every prime of Moduli and a length of at most
\* size(a) + size(b) groups), negative exactly when the signs differ and
\* neither operand is zero; and a * b == b * a.
C4_ExactProduct ==
    op = "*" =>
        /\ I1(res)
        /\ size(res) <= size(lhs) + size(rhs)
        /\ \A p \in Moduli :
               MagMod(res.a, 1, p) =
                   (MagMod(lhs.a, 1, p) * MagMod(rhs.a, 1, p)) % p
        /\ res.sign = (IF lhs.sign # rhs.sign /\ ~is_zero(lhs) /\ ~is_zero(rhs)
                       THEN minus ELSE plus)
        /\ Equal(res, MulAssign(rhs, lhs))
\* 123456789 * 987654321 == 121932631112635269
C4_Witness ==
    /\ op = "*"
    /\ lhs = BigInt(<<89, 67, 45, 23, 1>>, plus)
    /\ rhs = BigInt(<<21, 43, 65, 87, 9>>, plus)
    /\ res = BigInt(<<69, 52, 63, 12, 11, 63, 32, 19, 12>>, plus)

\* C5: a + b is the exact sum for operands of any signs, in canonical form
\* (carry for equal signs, borrow and the sign of the larger magnitude for
\* differing signs, a zero result positive).
C5_ExactSum ==
    op = "+" =>
        /\ Canonical(res)
        /\ Value(res) = Value(lhs) + Value(rhs)
\* 999 + 1 == 1000
C5_Witness ==
    /\ op = "+"
    /\ lhs = BigInt(<<99, 9>>, plus) /\ rhs = BigInt(<<1>>, plus)
    /\ res = BigInt(<<0, 10>>, plus)

\* C6: a + b - b == a for all canonical a and b, also when b is zero or
\* a + b is zero: checked where res holds a + b.
C6_AddThenSubtract ==
    op = "+" => Equal(MinusAssign(res, rhs), lhs)
\* a + b is zero for a nonzero b
C6_Witness ==
    /\ op = "+" /\ ~is_zero(rhs) /\ size(rhs) = 2
    /\ is_zero(res)
    /\ MinusAssign(res, rhs) = lhs

\* C7: whenever the result of +, -, *, /, %, ++, -- or unary minus has
\* magnitude zero, it has sign Positive and the digit sequence [0].
C7_CanonicalZero ==
    (op \in {"+", "-", "*", "/", "%", "++", "--", "neg"} /\ AllZero(res)) =>
        (res.sign = plus /\ res.a = <<0>>)
\* the negation of zero
C7_Witness ==
    /\ op = "neg" /\ is_zero(lhs)
    /\ res = BigInt(<<0>>, plus)

\* a valid decimal literal: an optional '-', then one or more decimal digits
IsDigits(d) ==
    Len(d) >= 1 /\ \A i \in 1..Len(d) : \E k \in 1..10 : d[i] = DigitChars[k]
ValidLiteral(lit) ==
    IF Len(lit) >= 1 /\ lit[1] = "-" THEN IsDigits(Tail(lit)) ELSE IsDigits(lit)

\* C8: invariant I1 holds after every constructor and every mutating
\* operator on canonical operands.
C8_I1AfterEveryOperation ==
    (/\ op \in {"BigInteger(string)", "BigInteger(int)", "copy", "+", "-",
                 "*", "/", "%", "++", "--"}
     /\ op = "BigInteger(string)" => ValidLiteral(s)) => I1(res)

\* the canonical form of a valid decimal literal: leading zeros stripped,
\* the sign dropped when only "0" is left
RECURSIVE StripLeadingZeros(_)
StripLeadingZeros(d) ==
    IF Len(d) > 1 /\ d[1] = "0" THEN StripLeadingZeros(Tail(d)) ELSE d
CanonicalForm(lit) ==
    LET neg == lit[1] = "-"
        d == StripLeadingZeros(IF neg THEN Tail(lit) ELSE lit)
    IN  IF neg /\ d # <<"0">> THEN <<"-">> \o d ELSE d

\* C9: for every valid decimal string s, BigInteger(s).toString() is the
\* canonical form of s ("-0", "-000" and "007" format as "0", "0" and "7"),
\* and a parsed zero has sign Positive.
C9_ParseThenFormat ==
    (op = "BigInteger(string)" /\ ValidLiteral(s)) =>
        /\ toString(res) = CanonicalForm(s)
        /\ is_zero(res) => res.sign = plus

\* C10: toString round-trips through the string constructor for every
\* canonical x: BigInteger(x.toString()) == x.
C10_RoundTrip ==
    (op = "toString" /\ err = "none" /\ Canonical(res)) =>
        Equal(BigIntegerFromString(str), res)
\* a negative x whose low group needs padding to the group width
C10_Witness ==
    /\ op = "toString" /\ err = "none"
    /\ res = BigInt(<<7, 1>>, minus)
    /\ str = <<"-", "1", "0", "7">>
    /\ BigIntegerFromString(str) = res

\* C11: on canonical BigIntegers operator< is the strict order of the integer
\* values and operator== is equality of sign, group count and groups, so
\* exactly one of a < b, a == b, b < a holds.
C11_StrictTotalOrder ==
    /\ op = "<" =>
           /\ flag = (Value(lhs) < Value(rhs))
           /\ (IF flag THEN 1 ELSE 0) + (IF Equal(lhs, rhs) THEN 1 ELSE 0)
                  + (IF Less(rhs, lhs) THEN 1 ELSE 0) = 1
    /\ op = "==" => flag = (Value(lhs) = Value(rhs))
\* of two negatives of different lengths the longer one is the smaller
C11_Witness ==
    /\ op = "<" /\ flag
    /\ lhs.sign = minus /\ rhs.sign = minus
    /\ size(lhs) > size(rhs)

\* ------------------------------------------------ the claims on Rational
\* the greatest common divisor of two naturals
RECURSIVE IntGcd(_, _)
IntGcd(k, m) == IF m = 0 THEN k ELSE IntGcd(m, k % m)

\* invariant I3: numerator and denominator are positive objects, the
\* denominator is above zero and the fraction is in lowest terms
I3(r) ==
    /\ r.numerator.sign = plus
    /\ r.denominator.sign = plus
    /\ MagValue(r.denominator.a, 1) > 0
    /\ IntGcd(Abs(MagValue(r.numerator.a, 1)), MagValue(r.denominator.a, 1)) = 1
\* a Rational that stands for a number: canonical members, I3, a positive zero
ValidRat(r) ==
    /\ Canonical(r.numerator) /\ Canonical(r.denominator)
    /\ I3(r)
    /\ r.sign \in {plus, minus}
    /\ is_zero(r.numerator) => r.sign = plus
\* the number is RNum(r) / RDen(r)
RNum(r) == r.sign * MagValue(r.numerator.a, 1)
RDen(r) == MagValue(r.denominator.a, 1)

\* C12: I3 holds after construction from an int or a canonical BigInteger and
\* after every sequence of +=, -=, *=, /= by a nonzero Rational and unary
\* minus that returned.
C12_I3AfterEveryOperation ==
    (rerr = "none" /\ ~rdivzero) => I3(rat)

\* the exact result k / m of rprev o rarg, not reduced, m > 0
ExactNum(o, x, y) ==
    CASE o = "+=" -> RNum(x) * RDen(y) + RNum(y) * RDen(x)
      [] o = "-=" -> RNum(x) * RDen(y) - RNum(y) * RDen(x)
      [] o = "*=" -> RNum(x) * RNum(y)
      [] o = "/=" -> RNum(x) * RDen(y) * (IF RNum(y) < 0 THEN -1 ELSE 1)
ExactDen(o, x, y) ==
    CASE o = "/=" -> RDen(x) * Abs(RNum(y))
      [] OTHER -> RDen(x) * RDen(y)
\* r is the fraction k / m in lowest terms
IsReduced(r, k, m) ==
    /\ ValidRat(r)
    /\ RNum(r) * IntGcd(Abs(k), m) = k
    /\ RDen(r) * IntGcd(Abs(k), m) = m
\* lhs o rhs by the binary operator
Binary(o, x, y) ==
    CASE o = "+=" -> RatPlus(x, y)
      [] o = "-=" -> RatMinus(x, y)
      [] o = "*=" -> RatTimes(x, y)
      [] o = "/=" -> RatOver(x, y)

\* C13: for Rationals a and b in distinct objects (b nonzero for division)
\* a + b, a - b, a * b and a / b return, and are the exact result in lowest
\* terms with its sign, from the compound assignment and from the binary
\* operator alike.
C13_ExactArithmetic ==
    (/\ rop \in {"+=", "-=", "*=", "/="}
     /\ ValidRat(rprev) /\ ValidRat(rarg)
     /\ rop = "/=" => ~RatIsZero(rarg)) =>
        /\ rerr = "none"
        /\ IsReduced(rat, ExactNum(rop, rprev, rarg), ExactDen(rop, rprev, rarg))
        /\ Binary(rop, rprev, rarg) = rat
\* 1/3 + 1/6 == 1/2
C13_Witness ==
    /\ rop = "+=" /\ rerr = "none"
    /\ rprev = Rat(BigIntegerOf(1), BigIntegerOf(3), plus)
    /\ rarg = Rat(BigIntegerOf(1), BigIntegerOf(6), plus)
    /\ rat = Rat(BigIntegerOf(1), BigIntegerOf(2), plus)

\* C14: dividing a Rational by a Rational whose value is zero reports a
\* DivisionByZero error and does not return a Rational.
C14_DivisionByZeroReported ==
    (rop = "/=" /\ RatIsZero(rarg)) => rerr = "DivisionByZero"

\* the decimal digits of a natural, independent of the digit groups
Rendered(r) ==
    (IF r.sign = minus THEN <<"-">> ELSE <<>>)
        \o to_string(Abs(RNum(r)))
        \o (IF RDen(r) # 1 THEN <<"/">> \o to_string(RDen(r)) ELSE <<>>)

\* C15: toString renders a Rational as an optional '-', the numerator, and
\* "/" with the denominator only when the denominator is not 1.
C15_ToStringReduced ==
    (rfmt = "toString" /\ ValidRat(rat)) =>
        /\ rerr = "none"
        /\ rtext = Rendered(rat)
\* 2/4 renders "1/2"
C15_Witness ==
    /\ rfmt = "toString" /\ rop = "/="
    /\ rprev = RationalFromInt(2) /\ rarg = RationalFromInt(4)
    /\ rtext = <<"1", "/", "2">>

\* the first p decimals of rem / den, by long division
RECURSIVE FracDigits(_, _, _)
FracDigits(rem, den, p) ==
    IF p = 0 THEN <<>>
    ELSE <<DigitChars[((rem * 10) \div den) + 1]>>
             \o FracDigits((rem * 10) % den, den, p - 1)
Truncated(r, p) ==
    (IF RNum(r) < 0 THEN <<"-">> ELSE <<>>)
        \o to_string(Abs(RNum(r)) \div RDen(r))
        \o <<".">>
        \o FracDigits(Abs(RNum(r)) % RDen(r), RDen(r), p)

\* C16: for a precision p >= 1 asDecimal(p) is the integer part of |r|, a
\* '.', and the first p decimals of |r| (truncated, not rounded), after a
\* '-' when r is negative.
C16_AsDecimalTruncates ==
    (rfmt = "asDecimal" /\ rprec >= 1 /\ ValidRat(rat)) =>
        /\ rerr = "none"
        /\ rtext = Truncated(rat, rprec)
\* 1/3 at precision 4 is "0.3333"
C16_Witness ==
    /\ rfmt = "asDecimal" /\ rprec = 4 /\ rop = "/="
    /\ rprev = RationalFromInt(1) /\ rarg = RationalFromInt(3)
    /\ rtext = <<"0", ".", "3", "3", "3", "3">>

\* C17: for every BigInteger n, Rational(n).asDecimal(0) == n.toString().
C17_RoundTripPrecisionZero ==
    (rfmt = "asDecimal" /\ rprec = 0 /\ rsteps = 0 /\ rerr = "none"
         /\ rsrc.kind = "BigInteger") =>
        rtext = toString(rsrc.arg)


\* C18: constructing a BigInteger from malformed input (an empty string, a
\* lone "-", a character that is no digit anywhere but one leading '-')
\* reports a MalformedInput error to the caller; so does operator>> for the
\* word it extracts (a failbit left on the stream counts as a report).
C18_MalformedInputReported ==
    /\ (op = "BigInteger(string)" /\ ~ValidLiteral(s)) =>
            err = "MalformedInput"
    /\ (op = ">>" /\ ~ValidLiteral(str)) => (err = "MalformedInput" \/ fail)


\* the blocks an object of the run's class holds
BlocksOf(o) ==
    IF vkind = "Rational" THEN {o.numerator.a, o.denominator.a} ELSE {o.a}

\* C19: value semantics. A binary operator or a comparison leaves both
\* operands unchanged, a compound assignment vl o= vr leaves vr unchanged,
\* an operation on one of a copy and its source leaves the other unchanged,
\* and the object an operator returns or a copy constructs shares no storage
\* with the operands.
C19_ValueSemantics ==
    (vkind # "none" /\ vop # "start") =>
        /\ vtarget # "l" => Loaded(heap, vl) = vold.l
        /\ Loaded(heap, vr) = vold.r
        /\ (vtarget \in {"l", "none"} /\ vres # <<>>) =>
                <<Loaded(heap, vres[1])>> = vold.res
        /\ vres # <<>> =>
                BlocksOf(vres[1]) \cap (BlocksOf(vl) \cup BlocksOf(vr)) = {}
        /\ BlocksOf(vl) \cap BlocksOf(vr) = {}
\* 7 * -7 returned as a new object
C19_Witness ==
    /\ vkind = "BigInteger" /\ vop = "*" /\ vtarget = "new"
    /\ Loaded(heap, vl) = BigIntegerOf(7)
    /\ Loaded(heap, vr) = BigIntegerOf(-7)
    /\ Loaded(heap, vres[1]) = BigIntegerOf(-49)

\* a prime, and a power modulo N by repeated multiplication
Prime(N) == N > 1 /\ \A d \in 2..(N - 1) : N % d # 0
RECURSIVE PowMod(_, _, _)
PowMod(b, e, N) == IF e = 0 THEN 1 % N ELSE (b * PowMod(b, e - 1, N)) % N

\* C20: for every prime modulus N and every Residue<N> x with x != 0, the
\* quotient y = Residue<N>(1) / x is x^(N-2) and y * x == Residue<N>(1).
C20_InverseOfNonzero ==
    (modop \in {"/", "*", "!="} /\ Prime(modN) /\ modx # 0) =>
        /\ mody = PowMod(modx, modN - 2, modN)
        /\ modop \in {"*", "!="} => modz = 1
        /\ modop = "!=" => ~modne
\* modulo 7 the inverse of 3 is 5
C20_Witness ==
    /\ modop = "!=" /\ modN = 7 /\ modin = -4 /\ modx = 3 /\ mody = 5
    /\ modz = 1 /\ ~modne

\* ------------------------------------------------- the claims on Matrix
\* the determinant of a square matrix of ints, by expansion along row 1
Without(x, r, c) ==
    [i \in 1..(Len(x) - 1) |->
        [j \in 1..(Len(x) - 1) |->
            x[IF i < r THEN i ELSE i + 1][IF j < c THEN j ELSE j + 1]]]
RECURSIVE IntDet(_)
RECURSIVE Expansion(_, _)
Expansion(x, j) ==
    IF j > Len(x) THEN 0
    ELSE (IF j % 2 = 1 THEN 1 ELSE -1) * x[1][j] * IntDet(Without(x, 1, j))
             + Expansion(x, j + 1)
IntDet(x) == IF Len(x) = 1 THEN x[1][1] ELSE Expansion(x, 1)
\* the adjugate: entry (i, j) is the cofactor of entry (j, i)
Adjugate(x) ==
    [i \in 1..Len(x) |->
        [j \in 1..Len(x) |->
            (IF (i + j) % 2 = 0 THEN 1 ELSE -1) * IntDet(Without(x, j, i))]]
\* the element x of the Field is the quotient k / m of the ints
FieldIs(F, x, k, m) ==
    IF F.kind = "Rational"
    THEN /\ Canonical(x.numerator) /\ Canonical(x.denominator)
         /\ x.sign * Value(x.numerator) * m = k * Value(x.denominator)
    ELSE /\ x \in 0..(F.N - 1)
         /\ (x * m - k) % F.N = 0
\* the determinant of matA is not zero in the Field
Invertible ==
    IF matF.kind = "Rational" THEN IntDet(matA) # 0
    ELSE IntDet(matA) % matF.N # 0
\* the matrix m of the Field holds the ints x, each divided by the int d
MatIs(m, x, d) ==
    /\ Len(m) = Len(x)
    /\ \A i \in 1..Len(x) :
          /\ Len(m[i]) = Len(x)
          /\ \A j \in 1..Len(x) : FieldIs(matF, m[i][j], x[i][j], d)
Identity(D) == [i \in 1..D |-> [j \in 1..D |-> IF i = j THEN 1 ELSE 0]]

\* C21: for an invertible square matrix A over Residue<p> or Rational,
\* A.inverted() is the inverse of A (the adjugate divided by the determinant),
\* A.inverted() * A is the identity matrix, and A.invert() leaves that same
\* inverse in A, also when the elimination has to swap rows.
C21_InverseOfInvertible ==
    (Invertible /\ matop \in {"inverted", "*", "invert"}) =>
        /\ MatIs(matInv, Adjugate(matA), IntDet(matA))
        /\ matop \in {"*", "invert"} =>
              MatIs(matProd, Identity(Len(matA)), 1)
        /\ matop = "invert" => matM = matInv
\* a matrix of Rationals with a zero at the top of the diagonal, so that rows
\* 0 and 1 are swapped, has been inverted both ways
C21_Witness ==
    /\ matop = "invert" /\ matF.kind = "Rational"
    /\ matA = <<<<0, 1, 0>>, <<1, 0, 1>>, <<1, 1, 0>>>>
    /\ Invertible
    /\ matM = matInv
    /\ MatIs(matProd, Identity(3), 1)

\* C22: for a square matrix A over a field, A.det() is the determinant of A
\* (0 for a singular matrix) and leaves A unchanged; dividing row 0 of A by a
\* nonzero det(A) gives a matrix of determinant 1.
C22_Determinant ==
    /\ matop \in {"det", "row /= det", "scaled det", "inverted", "*"} =>
          /\ FieldIs(matF, matDet, IntDet(matA), 1)
          /\ MatIs(matM, matA, 1)
    /\ (matop \in {"scaled det", "inverted", "*", "invert"} /\ Invertible) =>
          FieldIs(matF, matScaledDet, 1, 1)
\* the determinant -2 of a matrix whose rows are swapped, and the determinant
\* 1 after the division of row 0
C22_Witness ==
    /\ matop = "scaled det" /\ matF.kind = "Rational"
    /\ matA = <<<<0, 2>>, <<1, 2>>>>
    /\ matDet = RationalFromInt(-2)
    /\ matScaledDet = RationalFromInt(1)
\* a singular matrix has determinant zero
C22_SingularWitness ==
    /\ matop = "det" /\ matF = [kind |-> "Residue", N |-> 5]
    /\ matA = <<<<1, 2>>, <<-2, 1>>>>
    /\ matDet = 0

\* ------------------------------------- the claims on Rational operands
\* the Rational x has the value k / m of the ints
RatIs(x, k, m) == x.sign * Value(x.numerator) * m = k * Value(x.denominator)
\* the numerator, with the sign, and the denominator of the value before
\* the operation
OldNum == vold.l.sign * Value(vold.l.numerator)
OldDen == Value(vold.l.denominator)

\* C25: for every Rational r, r += r, r -= r, r *= r and, for r nonzero,
\* r /= r give what the operation gives with an independent copy of r as
\* its right operand: 2r, 0, r * r and 1.
C25_SelfAssignment ==
    /\ (vkind = "Rational" /\ vop = "+= self") =>
          /\ Loaded(heap, vl) = RatCompoundValue("+", vold.l, vold.l)
          /\ RatIs(Loaded(heap, vl), 2 * OldNum, OldDen)
    /\ (vkind = "Rational" /\ vop = "-= self") =>
          /\ Loaded(heap, vl) = RatCompoundValue("-", vold.l, vold.l)
          /\ RatIs(Loaded(heap, vl), 0, 1)
    /\ (vkind = "Rational" /\ vop = "*= self") =>
          /\ Loaded(heap, vl) = RatCompoundValue("*", vold.l, vold.l)
          /\ RatIs(Loaded(heap, vl), OldNum * OldNum, OldDen * OldDen)
    /\ (vkind = "Rational" /\ vop = "/= self" /\ OldNum # 0) =>
          /\ Loaded(heap, vl) = RatCompoundValue("/", vold.l, vold.l)
          /\ RatIs(Loaded(heap, vl), 1, 1)

\* the order of the values of the Rationals l and r
ValueLess(l, r) ==
    l.sign * Value(l.numerator) * Value(r.denominator)
        < r.sign * Value(r.numerator) * Value(l.denominator)
ValueCompare(o, l, r) ==
    CASE o = "==" -> ~ValueLess(l, r) /\ ~ValueLess(r, l)
      [] o = "!=" -> ValueLess(l, r) \/ ValueLess(r, l)
      [] o = "<" -> ValueLess(l, r)
      [] o = ">" -> ValueLess(r, l)
      [] o = "<=" -> ~ValueLess(r, l)
      [] o = ">=" -> ~ValueLess(l, r)

\* C26: on reduced Rationals every comparison agrees with the order of the
\* rational values, so that exactly one of a < b, a == b, b < a holds, a < a
\* is false and a <= a, a >= a are true, for negative a too.
C26_OrderOfValues ==
    (vkind = "Rational" /\ vop \in Comparisons) =>
        vflag = ValueCompare(vop, vold.l, vold.r)

\* ------------------------------------- the claims on the loops
\* C23: in operator/= on a canonical dividend and a nonzero canonical
\* divisor, whenever the loop on number is left the remainder is smaller in
\* magnitude than the shifted divisor, also when number has reached the cap
\* 9: the digit is in 0..9, the first shifted divisor exceeds the dividend (no
\* subtraction at the first position), and after the last position the
\* remainder is smaller in magnitude than the divisor.
C23_TrialStopsOnRemainder ==
    (lkind = "/=" /\ ~is_zero(ly)) =>
        /\ lpc = "digit" => less_abs(la, lb) /\ lnumber \in 0..9
        /\ (lpc = "digit"
               /\ ldegree = (size(lx) - size(ly) + 1) * base_len) =>
              lnumber = 0 /\ less_abs(lx, lb)
        /\ lpc = "assign" => less_abs(la, ly)
        /\ lpc = "done" => la = DivAssign(lx, ly)
\* nine subtractions at one position, and the remainder is smaller than the
\* shifted divisor
C23_Witness ==
    /\ lkind = "/=" /\ lpc = "digit" /\ lnumber = 9 /\ ~is_zero(ly)
    /\ less_abs(la, lb)

\* what gcd returns
GcdResult ==
    (lkind = "gcd" /\ lpc = "done") =>
        /\ Canonical(la) /\ la.sign = plus
        /\ Value(la) = IntGcd(Value(lx), Value(ly))
        /\ \A d \in 1..Max(1, Value(la)) :
              (Value(lx) % d = 0 /\ Value(ly) % d = 0) => Value(la) % d = 0
        /\ is_zero(ly) => la = lx
        /\ is_zero(lx) => la = ly
\* the second argument decreases at every turn of the loop, and a %= b is
\* executed for a nonzero b only
GcdDecreases ==
    (lkind = "gcd" /\ lpc = "while" /\ lpc' = "while") =>
        ~is_zero(lb) /\ Less(lb', lb) /\ lb'.sign = plus
\* C24: gcd(a, b) on canonical BigIntegers that are not negative terminates,
\* its second argument decreasing at every turn of the loop and no modulo by
\* zero being executed, and returns the greatest common divisor with the
\* sign plus; gcd(a, 0) == a and gcd(0, b) == b.
C24_GcdTerminates ==
    /\ []GcdResult
    /\ [][GcdDecreases]_vars
    /\ <>(lkind = "gcd" => lpc = "done")
\* gcd(707, 7) has returned 7 (707 is the groups 7, 7)
C24_Witness ==
    /\ lkind = "gcd" /\ lpc = "done"
    /\ lx = BigInt(<<7, 7>>, plus) /\ ly = BigInt(<<7>>, plus)
    /\ la = BigInt(<<7>>, plus)

\* ------------------------------------- the claims on SharedPtr
\* the SharedPtr objects and the WeakPtr objects that hold the block
Holders(p) == {i \in DOMAIN p : p[i] = "block"}

C27_DeallocatedWitness ==
    /\ pop = "~WeakPtr" /\ pcb.shared_count = 0 /\ pcb.weak_count = 0
    /\ pcb.destroyed = 1 /\ pcb.deallocated = 1 /\ ~pcb.stale

\* ------------------------------------------ the claims on List
\* the nodes of l from its end_ along next_, while they are nodes of the
\* allocator, at most all of them
RECURSIVE Along(_, _, _)
Along(h, it, fuel) ==
    IF fuel = 0 \/ it \notin h.nodes THEN <<>>
    ELSE <<it>> \o Along(h, h.next[it], fuel - 1)
Ring(h, l) == Along(h, h.next[l], Cardinality(NodeIds))
\* following next_ from the end_ of l visits nodes and returns to the end_
\* of l, and prev_ mirrors next_
WellFormed(h, l) ==
    LET ring == Ring(h, l)
        at(i) == IF i = 0 \/ i = Len(ring) + 1 THEN l ELSE ring[i]
    IN /\ \A i \in 0..Len(ring) :
             h.next[at(i)] = at(i + 1) /\ h.prev[at(i + 1)] = at(i)
       /\ \A i \in 1..Len(ring), j \in 1..Len(ring) :
             ring[i] = ring[j] => i = j
Values(h, l) == [i \in 1..Len(Ring(h, l)) |-> h.value[Ring(h, l)[i]]]

\* C28: after a = b, a holds the elements of b in their order, a.size() is
\* b.size(), b is as it was, and the ring of a is well formed; for all a and
\* b, empty ones included.
C28_CopyAssignment ==
    (qop \in {"=", "aborted"} /\ qold.this # qold.other) =>
        /\ qop = "="
        /\ WellFormed(qheap, qold.this)
        /\ Values(qheap, qold.this) = qold[qold.other]
        /\ qheap.size[qold.this] = Len(qold[qold.other])
        /\ WellFormed(qheap, qold.other)
        /\ Values(qheap, qold.other) = qold[qold.other]
        /\ qheap.size[qold.other] = Len(qold[qold.other])

\* the elements of row from the last to the first
Backwards(row) == [i \in 1..Len(row) |-> row[Len(row) + 1 - i]]
\* C29: the traversal from rbegin() to rend() visits every element once, in
\* the reverse of the order of insertion, in size() steps, and rbegin() ==
\* rend() only for an empty list.
C29_ReverseTraversal ==
    qop = "reverse" =>
        /\ qvisit.visited = Backwards(elements(qheap, qvisit.list))
        /\ Len(qvisit.visited) = qheap.size[qvisit.list]
        /\ qvisit.equal => qheap.size[qvisit.list] = 0

\* ---------------------------------- the claims on UnorderedMap
\* the nodes of list_ from begin() to end()
MapRing(m) == Along(m.list_, m.list_.next["list_"], Cardinality(MapNodeIds))
\* the entries of buckets_ that are not nullptr
Filled(m) == {i \in 1..Len(m.buckets_) : m.buckets_[i] # "nullptr"}
\* the entry i of buckets_ refers to a node of list_ of the bucket i, and the
\* node before it is of another bucket or is none
FirstOfRun(m, i) ==
    LET it == m.buckets_[i]
        ahead == m.list_.prev[it]
    IN /\ \E j \in 1..Len(MapRing(m)) : MapRing(m)[j] = it
       /\ hash_id_at(m, it) = i - 1
       /\ ahead = "list_" \/ hash_id_at(m, ahead) # i - 1
\* find(key) returns end() for every key, with no read of a deallocated node
FindsNothing(m) ==
    \A key \in Keys : ~find_reads_freed(m, key) /\ find(m, key) = "list_"

\* C30: after every sequence of insert, emplace, operator[], erase, rehash,
\* reserve and clear every entry of buckets_ that is not nullptr refers to a
\* node of list_ that is the first of the run of its bucket, and
\* bucket_count() is the number of these entries; after clear() size() is 0
\* and find(k) returns end() for every k.
C30_BucketInvariant ==
    uop \notin {"idle", "ctor"} =>
        /\ uop \notin {"aborted", "corrupted"}
        /\ \A i \in Filled(umap) : FirstOfRun(umap, i)
        /\ umap.buckets_cnt_ = Cardinality(Filled(umap))
        /\ uop = "clear" =>
              umap.list_.size["list_"] = 0 /\ FindsNothing(umap)

====
